---- MODULE Spec2Model ----
(***************************************************************************)
(* Model of the pipeline execution engine of the research platform:       *)
(*   - utils/document_lock.py   DocumentLock (singleton lock table)        *)
(*   - graph/full_pipeline.py   node functions, gate, routing, writers     *)
(*   - agents/topic/agents.py   TopicDiscoveryAgent / TopicLockAgent       *)
(*   - state_store.py           session state store and RESEARCH_STATES    *)
(*   - main.py                  run_research, update_research_state        *)
(*   - agents/base.py           BaseAgent.run and the response cache       *)
(*   - llm/factory.py           get_llm_provider and _PROVIDER_CACHE       *)
(*   - llm/groq_provider.py     key rotation and invoke_with_retry         *)
(* Python dicts are functions over a set of string keys; a missing key is  *)
(* a key outside DOMAIN.  None is the string "None".                       *)
(***************************************************************************)
EXTENDS Integers, Sequences, FiniteSets, TLC

VARIABLES
    locks,      \* DocumentLock._locks : job_id -> LockInfo (only while held)
    wpc,        \* writer-node execution -> position in the node function
    wjob,       \* writer-node execution -> job_id = state.get("_job_id")
    wowner,     \* writer-node execution -> owner string passed to acquire
    wpolls,     \* writer-node execution -> sleeps done inside acquire()
    wresult,    \* writer-node execution -> what run_agent or the node returned
    granted,    \* history: <<job, owner>> whose acquire returned True and
                \* for which release(job, owner) was not called since
    reported,   \* history: job -> versions returned by increment_version
    st,         \* ResearchState of the pipeline run (the graph's channels)
    active,     \* nodes scheduled for the next superstep of the run
    step,       \* supersteps the run has executed
    status,     \* "running", "done" (invoke returned), "raised"
    store,      \* state_store: _redis_available, Redis content, _MEMORY_STORE
    writes,     \* node -> partial update and route, for the nodes of the
                \* current superstep that have returned
    faults,     \* steps of the run that did not succeed, so far
    cache,      \* the cache directory: hash -> content of <hash>.json
    cthr,       \* thread -> where it is inside BaseAgent.run, and its locals
    clog,       \* history: the events of the BaseAgent.run calls, in order
    pcache,     \* factory._PROVIDER_CACHE : cache_key -> provider object
    providers,  \* provider object -> its fields (api_keys, _key_index, ...)
    thr,        \* thread -> where it is inside the llm package, its locals
    nextId,     \* objects constructed so far (providers and clients)
    cfg,        \* config: the configured API keys
    bin,        \* _truncate_context: the state and max_tokens it is given
    bout,       \* _truncate_context: what it returns
    call,       \* the last call made on the lock table, with its result
    mstore,     \* state_store of a process started without Redis
    slog,       \* the last state_store call, with what each process returned
    tel         \* a step execution with its telemetry: position and outcome

lockVars == <<locks, wpc, wjob, wowner, wpolls, wresult, granted, reported>>

runVars == <<st, active, step, status, store, writes, faults>>

cacheVars == <<cache, cthr, clog>>

poolVars == <<pcache, providers, thr, nextId, cfg>>

extraVars == <<bin, bout, call, mstore, slog, tel>>

stepVars == <<cacheVars, poolVars, extraVars>>

vars == <<locks, wpc, wjob, wowner, wpolls, wresult, granted, reported,
          st, active, step, status, store, writes, faults,
          cache, cthr, clog, pcache, providers, thr, nextId, cfg,
          bin, bout, call, mstore, slog, tel>>

----------------------------------------------------------------------------
(* Bounds *)

\* number of writer-node executions (over all concurrent pipeline runs)
NumExecs == 2

\* acquire() sleeps 0.1 s between polls and gives up once timeout (60 s in
\* the writer nodes) has elapsed: the number of sleeps before it gives up
TimeoutPolls == 2

\* steps of one run behind the gate that return an error payload or raise
MaxFaults == 2

Execs == 1..NumExecs

\* job ids: a numeric one, and the default of run_research ("unknown")
Jobs == {"1", "unknown"}

\* owner strings used by the two writer nodes
Owners == {"multi_stage_report", "latex_generation"}

----------------------------------------------------------------------------
(* utils/document_lock.py *)

\* LockInfo(job_id, acquired_at, owner, version=1); acquired_at is stored
\* and never read by any method, it is left out of the record.
LockInfo(job_id, owner, version) ==
    [job_id |-> job_id, owner |-> owner, version |-> version]

DictDel(d, k) == [x \in (DOMAIN d) \ {k} |-> d[x]]

DictSet(d, k, v) == [x \in (DOMAIN d) \cup {k} |-> IF x = k THEN v ELSE d[x]]

\* a plausible slip: the owner comparison is dropped and a held lock is
\* handed to whoever asks
acquire_poll_steal(lk, job_id, owner) ==
    [ret |-> TRUE, locks |-> DictSet(lk, job_id, LockInfo(job_id, owner, 1))]

\* one iteration of the while-loop of DocumentLock.acquire, the part under
\* _internal_lock: ret = TRUE is "return True", ret = FALSE falls through to
\* the timeout test and the sleep.
acquire_poll(lk, job_id, owner) ==
    IF job_id \notin DOMAIN lk
    THEN [ret |-> TRUE, locks |-> DictSet(lk, job_id, LockInfo(job_id, owner, 1))]
    ELSE IF lk[job_id].owner = owner
         THEN [ret |-> TRUE, locks |-> lk]
         ELSE [ret |-> FALSE, locks |-> lk]

\* release that deletes the record whoever asks
release_any(lk, job_id, owner) ==
    IF job_id \in DOMAIN lk
    THEN [ret |-> TRUE, locks |-> DictDel(lk, job_id)]
    ELSE [ret |-> TRUE, locks |-> lk]

\* a release that leaves the record in place
release_keep(lk, job_id, owner) == [ret |-> TRUE, locks |-> lk]

\* DocumentLock.release
release(lk, job_id, owner) ==
    IF job_id \in DOMAIN lk
    THEN IF lk[job_id].owner = owner \/ owner = "force"
         THEN [ret |-> TRUE, locks |-> DictDel(lk, job_id)]
         ELSE [ret |-> FALSE, locks |-> lk]
    ELSE [ret |-> TRUE, locks |-> lk]

\* DocumentLock.is_locked
is_locked(lk, job_id) == job_id \in DOMAIN lk

\* DocumentLock.increment_version
increment_version(lk, job_id) ==
    IF job_id \in DOMAIN lk
    THEN [ret |-> lk[job_id].version + 1,
          locks |-> [lk EXCEPT ![job_id].version = @ + 1]]
    ELSE [ret |-> 0, locks |-> lk]

\* DocumentLock.get_version
get_version(lk, job_id) ==
    IF job_id \in DOMAIN lk THEN lk[job_id].version ELSE 0

----------------------------------------------------------------------------
(* graph/full_pipeline.py: the writer nodes multi_stage_report_node and    *)
(* latex_node, one execution e per node call.  The two functions differ    *)
(* only in the owner string and the agent key.                             *)

\* what run_agent(agent_key, state) can come back with inside a writer node
WriteResults == {"completed", "error_payload", "failed"}

EmptyDict == [x \in {} |-> 0]

\* no BaseAgent.run call is under way
NoCache ==
    /\ cache = EmptyDict
    /\ cthr = EmptyDict
    /\ clog = <<>>

\* no call into the llm package is under way
NoPool ==
    /\ pcache = EmptyDict
    /\ providers = EmptyDict
    /\ thr = EmptyDict
    /\ nextId = 0
    /\ cfg = EmptyDict

\* no budgeting, lock-table, state-store or telemetry scenario is followed
NoExtra ==
    /\ bin = EmptyDict
    /\ bout = EmptyDict
    /\ call = EmptyDict
    /\ mstore = EmptyDict
    /\ slog = EmptyDict
    /\ tel = EmptyDict

NoStep == NoCache /\ NoPool /\ NoExtra

\* the lock specification has no pipeline run in it
NoRun ==
    /\ st = EmptyDict
    /\ active = {}
    /\ step = 0
    /\ status = "none"
    /\ store = [available |-> FALSE, redis |-> EmptyDict, memory |-> EmptyDict]
    /\ writes = EmptyDict
    /\ faults = 0

LockInit ==
    /\ NoStep
    /\ locks = EmptyDict
    /\ wpc = [e \in Execs |-> "idle"]
    /\ wjob = [e \in Execs |-> "unknown"]
    /\ wowner = [e \in Execs |-> "multi_stage_report"]
    /\ wpolls = [e \in Execs |-> 0]
    /\ wresult = [e \in Execs |-> "none"]
    /\ granted = {}
    /\ reported = [j \in Jobs |-> <<>>]
    /\ NoRun

\* the node is called: job_id = state.get("_job_id", "default"), start_time
WriterEnter(e, job_id, owner) ==
    /\ wpc[e] = "idle"
    /\ wpc' = [wpc EXCEPT ![e] = "acquire"]
    /\ wjob' = [wjob EXCEPT ![e] = job_id]
    /\ wowner' = [wowner EXCEPT ![e] = owner]
    /\ UNCHANGED <<locks, wpolls, wresult, granted, reported>>
    /\ UNCHANGED <<runVars, stepVars>>

\* a timeout test that lets one more poll through
timed_out_late(polls) == polls >= TimeoutPolls + 1

\* if time.time() - start_time > timeout, counted in polls of 0.1 s
timed_out(polls) == polls >= TimeoutPolls

\* one pass of the loop of document_lock.acquire(job_id, owner, timeout=60)
WriterAcquire(e) ==
    /\ wpc[e] = "acquire"
    /\ LET r == acquire_poll(locks, wjob[e], wowner[e]) IN
       IF r.ret
       THEN /\ locks' = r.locks
            /\ granted' = granted \cup {<<wjob[e], wowner[e]>>}
            /\ wpc' = [wpc EXCEPT ![e] = "write"]
            /\ UNCHANGED <<wpolls, wresult>>
       ELSE IF timed_out(wpolls[e])
            THEN \* return False: the node logs and returns the FAILED history
                 /\ wpc' = [wpc EXCEPT ![e] = "lock_timeout"]
                 /\ wresult' = [wresult EXCEPT ![e] = "lock_failed"]
                 /\ UNCHANGED <<locks, granted, wpolls>>
            ELSE \* time.sleep(0.1)
                 /\ wpolls' = [wpolls EXCEPT ![e] = @ + 1]
                 /\ UNCHANGED <<locks, granted, wpc, wresult>>
    /\ UNCHANGED <<wjob, wowner, reported>>
    /\ UNCHANGED <<runVars, stepVars>>

\* result = run_agent(<writer agent>, state), inside try
WriterRunAgent(e, res) ==
    /\ wpc[e] = "write"
    /\ wpc' = [wpc EXCEPT ![e] = "increment"]
    /\ wresult' = [wresult EXCEPT ![e] = res]
    /\ UNCHANGED <<locks, wjob, wowner, wpolls, granted, reported>>
    /\ UNCHANGED <<runVars, stepVars>>

\* an exception leaves run_agent (its except branch reads agent.name again,
\* which raises again when the lazily built agent cannot be constructed):
\* increment_version is skipped and the finally clause runs
WriterRunAgentRaises(e) ==
    /\ wpc[e] = "write"
    /\ wpc' = [wpc EXCEPT ![e] = "release"]
    /\ wresult' = [wresult EXCEPT ![e] = "raised"]
    /\ UNCHANGED <<locks, wjob, wowner, wpolls, granted, reported>>
    /\ UNCHANGED <<runVars, stepVars>>

\* document_lock.increment_version(job_id)
WriterIncrement(e) ==
    /\ wpc[e] = "increment"
    /\ LET r == increment_version(locks, wjob[e]) IN
       /\ locks' = r.locks
       /\ reported' = [reported EXCEPT ![wjob[e]] = Append(@, r.ret)]
    /\ wpc' = [wpc EXCEPT ![e] = "release"]
    /\ UNCHANGED <<wjob, wowner, wpolls, wresult, granted>>
    /\ UNCHANGED <<runVars, stepVars>>

\* finally: document_lock.release(job_id, owner); the node returns result
WriterRelease(e) ==
    /\ wpc[e] = "release"
    /\ locks' = release(locks, wjob[e], wowner[e]).locks
    /\ granted' = granted \ {<<wjob[e], wowner[e]>>}
    /\ wpc' = [wpc EXCEPT ![e] = "done"]
    /\ UNCHANGED <<wjob, wowner, wpolls, wresult, reported>>
    /\ UNCHANGED <<runVars, stepVars>>

LockNext ==
    \/ \E e \in Execs, j \in Jobs, o \in Owners : WriterEnter(e, j, o)
    \/ \E e \in Execs : WriterAcquire(e)
    \/ \E e \in Execs, res \in WriteResults : WriterRunAgent(e, res)
    \/ \E e \in Execs : WriterRunAgentRaises(e)
    \/ \E e \in Execs : WriterIncrement(e)
    \/ \E e \in Execs : WriterRelease(e)

SpecLock == LockInit /\ [][LockNext]_vars

----------------------------------------------------------------------------
(* Claims on the document lock *)

\* the executions that are between a successful acquire and their release
InWrite(e) == wpc[e] \in {"write", "increment", "release"}

HoldersOf(j) == {o \in Owners : <<j, o>> \in granted}

\* C1: for every resource, acquire calls of two different owners are never
\* both granted while neither owner has released: at most one owner holds
\* the resource, and it is the owner written in the lock record.
C1_MutualExclusion ==
    \A j \in Jobs :
        /\ Cardinality(HoldersOf(j)) <= 1
        /\ \A o \in HoldersOf(j) : j \in DOMAIN locks /\ locks[j].owner = o

\* C1 witness: one owner holds a resource while an acquire of the other
\* owner on the same resource has polled and been refused.
C1_Witness ==
    \E e1, e2 \in Execs :
        /\ wjob[e1] = wjob[e2] /\ wowner[e1] # wowner[e2]
        /\ InWrite(e1) /\ <<wjob[e1], wowner[e1]>> \in granted
        /\ wpc[e2] = "acquire" /\ wpolls[e2] >= 1

\* C2: at most one writer-node execution per job id is between its
\* successful acquire and its release.
C2_NoParallelWrites ==
    \A e1, e2 \in Execs :
        (e1 # e2 /\ InWrite(e1) /\ InWrite(e2)) => wjob[e1] # wjob[e2]

StrictlyIncreasing(s) ==
    \A i, k \in 1..Len(s) : i < k => s[i] < s[k]

\* C3: the versions the lock reports for a resource over successive
\* acquire -> write -> release cycles are strictly increasing.
C3_VersionMonotonic ==
    \A j \in Jobs : StrictlyIncreasing(reported[j])

----------------------------------------------------------------------------
(* Python dict helpers *)

Get(d, k, default) == IF k \in DOMAIN d THEN d[k] ELSE default

\* graph/full_pipeline.py: the reducer of the findings channel, {**a, **b}
merge_dicts(a, b) ==
    [k \in (DOMAIN a) \cup (DOMAIN b) |-> IF k \in DOMAIN b THEN b[k] ELSE a[k]]

----------------------------------------------------------------------------
(* state_store.py.  store.redis is the content of the Redis server,       *)
(* store.memory is _MEMORY_STORE, store.available is _redis_available.     *)
(* A value read from Redis is a fresh copy (json.loads); a value read from *)
(* _MEMORY_STORE is the stored dict itself, so mutating it in place        *)
(* changes the store.  The topic records hold only booleans, strings and   *)
(* lists of strings, which json.dumps / json.loads give back unchanged.    *)

get_state(S, session_id) ==
    IF S.available /\ session_id \in DOMAIN S.redis
    THEN S.redis[session_id]
    ELSE Get(S.memory, session_id, EmptyDict)

set_state(S, session_id, state) ==
    IF S.available
    THEN [S EXCEPT !.redis = DictSet(@, session_id, state)]
    ELSE [S EXCEPT !.memory = DictSet(@, session_id, state)]

update_state(S, session_id, updates) ==
    set_state(S, session_id, merge_dicts(get_state(S, session_id), updates))

\* _StateProxy.__contains__ : bool(get_state(key))
proxy_contains(S, key) == DOMAIN get_state(S, key) # {}

\* RESEARCH_STATES[key][field] = value : __getitem__ and then an item
\* assignment on the dict that came back
proxy_item_assign(S, key, field, value) ==
    IF S.available /\ key \in DOMAIN S.redis
    THEN S
    ELSE IF key \in DOMAIN S.memory
         THEN [S EXCEPT !.memory[key] = DictSet(@, field, value)]
         ELSE S

----------------------------------------------------------------------------
(* agents/topic/agents.py *)

isdigit(job_id) == job_id \in {"0", "1"}

int(job_id) == IF job_id = "0" THEN 0 ELSE 1

\* job_id = int(state.get("_job_id")) if str(...).isdigit() else None,
\* followed by the truth test "if job_id": None and 0 are both false
TruthyJobId(state) == isdigit(state["_job_id"]) /\ int(state["_job_id"]) # 0

\* what self.llm.invoke(messages) followed by _extract_json can give
LLMOutcomes ==
    {"specific", "specific_no_title", "vague", "vague_empty",
     "raw_text", "invoke_error"}

Suggestions == <<"Suggested title 1", "Suggested title 2">>

\* the parsed JSON of the model's answer
LLMJson(llm) ==
    CASE llm = "specific" ->
            [is_specific |-> TRUE, selected_topic |-> "Refined title"]
      [] llm = "specific_no_title" -> [is_specific |-> TRUE]
      [] llm = "vague" ->
            [is_specific |-> FALSE, topic_suggestions |-> Suggestions]
      [] OTHER -> [is_specific |-> FALSE]

\* lines 189-200: publish the suggestions for frontend polling
StoreSuggestions(S, state, suggestions) ==
    IF TruthyJobId(state)
    THEN LET job_id == int(state["_job_id"])
             S1 == IF ~proxy_contains(S, job_id)
                   THEN set_state(S, job_id, EmptyDict) ELSE S
             S2 == proxy_item_assign(S1, job_id, "topic_suggestions", suggestions)
         IN proxy_item_assign(S2, job_id, "topic_locked", FALSE)
    ELSE S

\* TopicDiscoveryAgent.run: the dict it returns and the store afterwards
TopicDiscoveryAgent_run(state, S, llm) ==
    IF state.topic_locked
    THEN [result |-> [topic_locked |-> TRUE,
                      selected_topic |-> state.selected_topic,
                      response |-> [status |-> "already_locked"]],
          store |-> S]
    ELSE IF Len(state.topic_suggestions) > 0
    THEN \* waiting for the user's selection: look at the external store
         IF /\ TruthyJobId(state)
            /\ proxy_contains(S, int(state["_job_id"]))
            /\ Get(get_state(S, int(state["_job_id"])), "topic_locked", FALSE)
         THEN LET selected_topic ==
                     Get(get_state(S, int(state["_job_id"])), "selected_topic", "None")
              IN [result |-> [topic_locked |-> TRUE,
                              selected_topic |-> selected_topic,
                              final_topic |-> selected_topic],
                  store |-> S]
         ELSE [result |-> [topic_locked |-> FALSE,
                           topic_suggestions |-> state.topic_suggestions],
               store |-> StoreSuggestions(S, state, state.topic_suggestions)]
    ELSE IF llm \in {"raw_text", "invoke_error"}
    THEN \* except: auto-lock the user's query as a survey title
         LET fallback_title == "A Comprehensive Survey on " \o state.task
         IN [result |-> [topic_locked |-> TRUE,
                         selected_topic |-> fallback_title,
                         topic_suggestions |-> <<fallback_title>>,
                         response |-> [topic_suggestions |-> <<>>,
                                       error |-> llm, fallback |-> TRUE],
                         agent |-> "TopicDiscovery"],
             store |-> S]
    ELSE IF Get(LLMJson(llm), "is_specific", FALSE)
    THEN [result |-> [topic_locked |-> TRUE,
                      selected_topic |-> Get(LLMJson(llm), "selected_topic", state.task),
                      topic_suggestions |-> <<>>,
                      response |-> LLMJson(llm),
                      agent |-> "TopicDiscovery"],
          store |-> S]
    ELSE LET suggestions == Get(LLMJson(llm), "topic_suggestions", <<>>)
         IN [result |-> [topic_locked |-> FALSE,
                         topic_suggestions |-> suggestions,
                         response |-> LLMJson(llm),
                         raw |-> llm,
                         agent |-> "TopicDiscovery"],
             store |-> StoreSuggestions(S, state, suggestions)]

\* TopicLockAgent.run.  selected_topic_index is not a channel of
\* ResearchState, the graph never hands it to the node: state.get gives None.
TopicLockAgent_run(state, S) ==
    IF state.selected_topic # "None"
    THEN [topic_locked |-> TRUE,
          selected_topic |-> state.selected_topic,
          response |-> [status |-> "locked", title |-> state.selected_topic]]
    ELSE IF /\ TruthyJobId(state)
            /\ proxy_contains(S, int(state["_job_id"]))
            /\ Get(get_state(S, int(state["_job_id"])), "topic_locked", FALSE)
    THEN LET ext_topic ==
                Get(get_state(S, int(state["_job_id"])), "selected_topic", "None")
         IN [topic_locked |-> TRUE,
             selected_topic |-> ext_topic,
             response |-> [status |-> "locked", title |-> ext_topic]]
    ELSE [topic_locked |-> FALSE,
          response |-> [status |-> "waiting_for_user"]]

----------------------------------------------------------------------------
(* graph/full_pipeline.py: run_agent, the gate nodes and the gate route *)

\* agents/registry.py: the keys of AGENTS the graph uses, with agent.name
AgentName ==
    [topic_discovery |-> "TopicDiscovery", topic_lock |-> "TopicLock",
     orchestrator |-> "Orchestrator",
     domain_intelligence |-> "DomainIntelligence",
     historical_review |-> "HistoricalReview",
     slr |-> "SystematicLiteratureReview", news |-> "NewsAgent",
     gap_synthesis |-> "GapSynthesis",
     innovation_novelty |-> "InnovationNovelty",
     paper_decomposition |-> "PaperDecomposition",
     paper_understanding |-> "PaperUnderstanding",
     technical_verification |-> "TechnicalVerification",
     hallucination_detection |-> "HallucinationDetection",
     visualization |-> "Visualization", scoring |-> "ScoringAgent",
     multi_stage_report |-> "MultiStageReport",
     latex_generation |-> "LaTeXGeneration"]

\* an agent.run that returned the dict d / that raised the exception e
Returned(d) == [raised |-> FALSE, result |-> d]

Raised(e) == [raised |-> TRUE, result |-> [error |-> e]]

\* run_agent whose except branch also stores the error under the step's key
run_agent_error_finding(agent_key, state, outcome) ==
    IF agent_key \notin DOMAIN AgentName
    THEN state
    ELSE IF outcome.raised
    THEN [findings |-> (agent_key :> outcome.result),
          history |-> <<[agent |-> AgentName[agent_key], entry |-> "FAILED"]>>]
    ELSE [findings |->
             (agent_key :> (IF "response" \in DOMAIN outcome.result
                            THEN outcome.result.response
                            ELSE outcome.result)),
          history |-> <<[agent |-> AgentName[agent_key], entry |-> "Completed"]>>]

\* run_agent(agent_key, state): outcome is what agent.run(state) did.  The
\* history strings are kept as records; the seconds printed in the
\* "Completed" entry are left out.
run_agent(agent_key, state, outcome) ==
    IF agent_key \notin DOMAIN AgentName
    THEN state
    ELSE IF outcome.raised
    THEN [history |-> <<[agent |-> AgentName[agent_key], entry |-> "FAILED"]>>]
    ELSE [findings |->
             (agent_key :> (IF "response" \in DOMAIN outcome.result
                            THEN outcome.result.response
                            ELSE outcome.result)),
          history |-> <<[agent |-> AgentName[agent_key], entry |-> "Completed"]>>]

\* topic_discovery_node, given what TopicDiscoveryAgent.run returned
topic_discovery_node(state, agent_result) ==
    LET result == run_agent("topic_discovery", state, Returned(agent_result))
    IN merge_dicts([topic_suggestions |-> Get(result, "topic_suggestions", <<>>),
                    topic_locked |-> Get(result, "topic_locked", FALSE)],
                   result)

\* topic_lock_node, given what TopicLockAgent.run returned
topic_lock_node(state, agent_result) ==
    LET result == run_agent("topic_lock", state, Returned(agent_result))
    IN merge_dicts([topic_locked |-> Get(result, "topic_locked", FALSE),
                    selected_topic |-> Get(result, "selected_topic", "None")],
                   result)

\* a gate that lets everything through
topic_gate_open(state) == "orchestrator"

\* topic_gate: the route taken after topic_lock
topic_gate(state) ==
    IF state.topic_locked THEN "orchestrator" ELSE "topic_discovery"

\* the channels with history declared without a reducer: the last value
\* written replaces the log
ApplyUpdate_replace_history(state, update) ==
    [k \in DOMAIN state |->
        IF k \notin DOMAIN update THEN state[k]
        ELSE IF k = "findings" THEN merge_dicts(state[k], update[k])
        ELSE update[k]]

\* How the graph writes a node's partial update into the channels of
\* ResearchState with findings as a last-value channel instead of merge_dicts
ApplyUpdate_overwrite(state, update) ==
    [k \in DOMAIN state |->
        IF k \notin DOMAIN update THEN state[k]
        ELSE IF k = "history" THEN state[k] \o update[k]
        ELSE update[k]]

\* ResearchState: findings through merge_dicts, history through
\* operator.add, every other channel keeps the last value written; keys
\* that are no channel are ignored.
ApplyUpdate(state, update) ==
    [k \in DOMAIN state |->
        IF k \notin DOMAIN update THEN state[k]
        ELSE IF k = "findings" THEN merge_dicts(state[k], update[k])
        ELSE IF k = "history" THEN state[k] \o update[k]
        ELSE update[k]]

----------------------------------------------------------------------------
(* main.py: run_research and update_research_state; the gate loop *)

\* pipeline.invoke(initial_state) is called without a config: the graph
\* library stops a run with GraphRecursionError once it has executed its
\* default recursion_limit of 25 supersteps and nodes are still scheduled.
RecursionLimit == 25

Tasks == {"AI in Healthcare", "analyse this paper"}

PaperUrls == {"None", "https://example.com/paper.pdf"}

\* job_id = request.job_id or request.session_id or "unknown"
RunJobIds == {"1", "unknown"}

\* research_id of POST /research/update-state
SessionIds == {0, 1}

\* titles a user can select
UserTopics == {"User title A", "User title B"}

\* initial_state of run_research, restricted to the channels of ResearchState
InitialState(task, paper_url, job_id) ==
    [task |-> task, paper_url |-> paper_url, next_step |-> "None",
     topic_locked |-> FALSE, selected_topic |-> "None",
     topic_suggestions |-> <<>>, research_summary |-> "None",
     findings |-> EmptyDict, history |-> <<>>, _job_id |-> job_id]

\* no writer node is executing
NoWriters ==
    /\ locks = EmptyDict
    /\ wpc = [e \in Execs |-> "idle"]
    /\ wjob = [e \in Execs |-> "unknown"]
    /\ wowner = [e \in Execs |-> "multi_stage_report"]
    /\ wpolls = [e \in Execs |-> 0]
    /\ wresult = [e \in Execs |-> "none"]
    /\ granted = {}
    /\ reported = [j \in Jobs |-> <<>>]

\* the session store when the process starts: empty, Redis reachable or not
StoreInit ==
    \E available \in BOOLEAN :
        store = [available |-> available, redis |-> EmptyDict, memory |-> EmptyDict]

\* POST /research: the run starts at the entry point topic_discovery
GateInit ==
    /\ NoStep
    /\ NoWriters
    /\ StoreInit
    /\ \E task \in Tasks, paper_url \in PaperUrls, job_id \in RunJobIds :
           st = InitialState(task, paper_url, job_id)
    /\ active = {"topic_discovery"}
    /\ step = 0
    /\ status = "running"
    /\ writes = EmptyDict
    /\ faults = 0

\* the compiled graph invoked on any input state (app.invoke(state))
GateInitAny ==
    /\ NoStep
    /\ NoWriters
    /\ StoreInit
    /\ \E task \in Tasks, job_id \in RunJobIds, topic_locked \in BOOLEAN,
          selected_topic \in {"None"} \cup UserTopics,
          topic_suggestions \in {<<>>, Suggestions} :
           st = [InitialState(task, "None", job_id) EXCEPT
                    !.topic_locked = topic_locked,
                    !.selected_topic = selected_topic,
                    !.topic_suggestions = topic_suggestions]
    /\ active = {"topic_discovery"}
    /\ step = 0
    /\ status = "running"
    /\ writes = EmptyDict
    /\ faults = 0

\* superstep: topic_discovery, then its edge to topic_lock
TopicDiscoveryNode(llm) ==
    /\ status = "running" /\ active = {"topic_discovery"}
    /\ step < RecursionLimit
    /\ LET out == TopicDiscoveryAgent_run(st, store, llm) IN
       /\ st' = ApplyUpdate(st, topic_discovery_node(st, out.result))
       /\ store' = out.store
    /\ active' = {"topic_lock"}
    /\ step' = step + 1
    /\ UNCHANGED <<status, writes, faults, lockVars>>
    /\ UNCHANGED stepVars

\* superstep: topic_lock, then the conditional edge topic_gate evaluated on
\* the state with the node's update applied
TopicLockNode ==
    /\ status = "running" /\ active = {"topic_lock"}
    /\ step < RecursionLimit
    /\ LET new == ApplyUpdate(st, topic_lock_node(st, TopicLockAgent_run(st, store))) IN
       /\ st' = new
       /\ active' = {topic_gate(new)}
    /\ step' = step + 1
    /\ UNCHANGED <<status, store, writes, faults, lockVars>>
    /\ UNCHANGED stepVars

\* invoke raises GraphRecursionError; run_research answers HTTP 500
RecursionLimitHit ==
    /\ status = "running" /\ active # {}
    /\ step >= RecursionLimit
    /\ status' = "raised"
    /\ UNCHANGED <<st, active, step, store, writes, faults, lockVars>>
    /\ UNCHANGED stepVars

\* POST /research/update-state with {topic_locked: true, selected_topic}
ExternalUpdate(research_id, topic) ==
    /\ store' = update_state(store, research_id,
                             [topic_locked |-> TRUE, selected_topic |-> topic])
    /\ UNCHANGED <<st, active, step, status, writes, faults, lockVars>>
    /\ UNCHANGED stepVars

GateNext ==
    \/ \E llm \in LLMOutcomes : TopicDiscoveryNode(llm)
    \/ TopicLockNode
    \/ RecursionLimitHit
    \/ \E research_id \in SessionIds, topic \in UserTopics :
           ExternalUpdate(research_id, topic)

SpecGate == GateInit /\ [][GateNext]_vars

SpecGateAny == GateInitAny /\ [][GateNext]_vars

----------------------------------------------------------------------------
(* Claims on the progression gate *)

PostGateNodes ==
    {"orchestrator", "domain_intelligence", "historical_review", "slr", "news",
     "gap_synthesis", "innovation", "paper_decomposition", "understanding",
     "technical_verification", "critique", "visualization", "scoring",
     "multi_stage_report"}

\* the session store holds a satisfaction flag for the run's job id
ExternalLockWritten ==
    /\ isdigit(st["_job_id"])
    /\ Get(get_state(store, int(st["_job_id"])), "topic_locked", FALSE)

\* C4: a topic_lock poll taken while the session store holds
\* topic_locked=true for the run's numeric job id makes topic_locked true
\* in the pipeline state and routes the graph to orchestrator.
C4_ExternalLockObserved ==
    [][(/\ status = "running" /\ active = {"topic_lock"}
        /\ step' = step + 1
        /\ ExternalLockWritten)
       => (st'.topic_locked /\ active' = {"orchestrator"})]_vars

\* topic discovery resolved a topic by itself in the visit just made
DiscoveryResolved ==
    /\ status = "running" /\ active = {"topic_lock"} /\ step > 0
    /\ "topic_discovery" \in DOMAIN st.findings
    /\ \/ Get(st.findings["topic_discovery"], "is_specific", FALSE)
       \/ Get(st.findings["topic_discovery"], "fallback", FALSE)

\* C5: when topic discovery resolves a topic itself (is_specific, or the
\* survey fallback), topic_locked=true and the selected topic are in the
\* pipeline state after the visit.
C5_AutoLockPropagates ==
    DiscoveryResolved => (st.topic_locked /\ st.selected_topic # "None")

C7_NoAgentBeforeLock ==
    /\ (active \cap PostGateNodes # {}) => st.topic_locked
    /\ ~st.topic_locked => active \subseteq {"topic_discovery", "topic_lock"}

\* C7 witness: the gate has been evaluated on an unlocked state more than
\* once and has sent the graph back to topic_discovery.
C7_Witness ==
    /\ step >= 4 /\ active = {"topic_discovery"} /\ ~st.topic_locked
    /\ "topic_lock" \in DOMAIN st.findings

\* C8: a run waiting at the gate never fails because of the number of times
\* the gate was re-entered.
C8_UnboundedPolling ==
    ~(status = "raised" /\ ~st.topic_locked)

----------------------------------------------------------------------------
(* agents/base.py, agents/orchestrator/orchestrator.py and the nodes of    *)
(* graph/full_pipeline.py behind the gate                                  *)

\* what agent.run(state) can do for the steps run through run_agent:
\* BaseAgent.run returns its result dict, or the error payload of its
\* except branch; a run method can also raise (code outside that try, or an
\* overriding run)
StepOutcomes == {"ok", "error", "raise"}

AgentOutcome(agent_key, o) ==
    CASE o = "ok" ->
            Returned([response |-> [summary |-> "parsed output"],
                      raw |-> "raw output", agent |-> AgentName[agent_key]])
      [] o = "error" ->
            Returned([error |-> "inference failed",
                      raw |-> "Error during execution",
                      agent |-> AgentName[agent_key]])
      [] OTHER -> Raised("step raised")

\* "paper" in task.lower()
MentionsPaper(task) == task = "analyse this paper"

\* what BaseAgent.run gives OrchestratorAgent.run: a response with a
\* next_step, a response without one, a parsed answer that is no dict, the
\* error payload, or an exception
OrchestratorOutcomes ==
    {"paper_analysis", "literature_review", "Paper Analysis", "survey",
     "no_next_step", "not_a_dict", "error", "raise"}

Heuristic(state) ==
    IF state.paper_url # "None" \/ MentionsPaper(state.task)
    THEN "paper_analysis" ELSE "literature_review"

\* the keyword normalisation of next_step ("paper" / "liter" / "review")
Normalize(ns) ==
    IF ns \in {"paper_analysis", "Paper Analysis"} THEN "paper_analysis"
    ELSE IF ns = "literature_review" THEN "literature_review"
    ELSE ns

\* OrchestratorAgent.run: the dict it returns (the keys of {**state} that
\* orchestrator_node never reads are left out)
OrchestratorAgent_run(state, o) ==
    CASE o \in {"paper_analysis", "literature_review", "Paper Analysis", "survey"} ->
            [next_step |-> Normalize(o),
             response |-> [next_step |-> Normalize(o)],
             agent |-> "Orchestrator"]
      [] o = "no_next_step" ->
            [next_step |-> Normalize(Heuristic(state)),
             response |-> [next_step |-> Normalize(Heuristic(state))],
             agent |-> "Orchestrator"]
      [] o = "not_a_dict" ->
            [response |-> <<"a", "list">>, agent |-> "Orchestrator"]
      [] o = "error" ->
            [error |-> "inference failed", raw |-> "Error during execution",
             agent |-> "Orchestrator"]
      [] OTHER ->
            [next_step |-> Heuristic(state), error |-> "step raised",
             plan |-> "Fallback routing", reasoning |-> "Orchestrator failed"]

\* orchestrator_node: next_step is read from result["response"] only
orchestrator_node(state, o) ==
    LET result == OrchestratorAgent_run(state, o)
        response == Get(result, "response", EmptyDict)
        is_dict == o \in {"paper_analysis", "literature_review",
                          "Paper Analysis", "survey", "no_next_step"}
    IN [next_step |-> IF is_dict THEN Get(response, "next_step", "None")
                      ELSE "None"]

\* route_strategy
route_strategy(state) ==
    IF state.next_step = "paper_analysis"
    THEN "paper_decomposition" ELSE "domain_intelligence"

\* the agent keys with news_node writing under the key of slr_node
AgentKey_shared ==
    [domain_intelligence |-> "domain_intelligence",
     historical_review |-> "historical_review", slr |-> "slr", news |-> "slr",
     gap_synthesis |-> "gap_synthesis", innovation |-> "innovation_novelty",
     paper_decomposition |-> "paper_decomposition",
     understanding |-> "paper_understanding",
     technical_verification |-> "technical_verification",
     critique |-> "hallucination_detection",
     visualization |-> "visualization", scoring |-> "scoring",
     multi_stage_report |-> "multi_stage_report"]

\* the agent key each node hands to run_agent
AgentKey ==
    [domain_intelligence |-> "domain_intelligence",
     historical_review |-> "historical_review", slr |-> "slr", news |-> "news",
     gap_synthesis |-> "gap_synthesis", innovation |-> "innovation_novelty",
     paper_decomposition |-> "paper_decomposition",
     understanding |-> "paper_understanding",
     technical_verification |-> "technical_verification",
     critique |-> "hallucination_detection",
     visualization |-> "visualization", scoring |-> "scoring",
     multi_stage_report |-> "multi_stage_report"]

\* the nodes that are one call of run_agent
PlainNodes == (DOMAIN AgentKey) \ {"multi_stage_report"}

\* the edges with visualization wired to multi_stage_report, past scoring
Edges_skip_scoring ==
    [domain_intelligence |-> {"historical_review", "slr", "news"},
     historical_review |-> {"gap_synthesis"}, slr |-> {"gap_synthesis"},
     news |-> {"gap_synthesis"}, gap_synthesis |-> {"innovation"},
     innovation |-> {"visualization"},
     paper_decomposition |-> {"understanding"},
     understanding |-> {"technical_verification"},
     technical_verification |-> {"critique"}, critique |-> {"visualization"},
     visualization |-> {"multi_stage_report"}, scoring |-> {"multi_stage_report"},
     multi_stage_report |-> {}]

\* workflow.add_edge: the unconditional edges; END is the empty set
Edges ==
    [domain_intelligence |-> {"historical_review", "slr", "news"},
     historical_review |-> {"gap_synthesis"}, slr |-> {"gap_synthesis"},
     news |-> {"gap_synthesis"}, gap_synthesis |-> {"innovation"},
     innovation |-> {"visualization"},
     paper_decomposition |-> {"understanding"},
     understanding |-> {"technical_verification"},
     technical_verification |-> {"critique"}, critique |-> {"visualization"},
     visualization |-> {"scoring"}, scoring |-> {"multi_stage_report"},
     multi_stage_report |-> {}]

\* the order in which the graph applies the updates of one superstep
NodeOrder ==
    <<"critique", "domain_intelligence", "gap_synthesis", "historical_review",
      "innovation", "multi_stage_report", "news", "orchestrator",
      "paper_decomposition", "scoring", "slr", "technical_verification",
      "understanding", "visualization">>

RECURSIVE ApplyAll(_, _, _)
ApplyAll(state, w, order) ==
    IF order = <<>> THEN state
    ELSE IF Head(order) \in DOMAIN w
         THEN ApplyAll(ApplyUpdate(state, w[Head(order)].update), w, Tail(order))
         ELSE ApplyAll(state, w, Tail(order))

\* an exception that leaves a node function leaves invoke as well
IsRaise(update) == "raise" \in DOMAIN update

\* the node functions domain_node ... scoring_node
plain_node(n, state, o) == run_agent(AgentKey[n], state, AgentOutcome(AgentKey[n], o))

\* multi_stage_report_node run to its return with nobody else touching the
\* lock table in between: the update it returns and the table afterwards
multi_stage_report_node(state, lk, o) ==
    LET job_id == state["_job_id"]
        a == acquire_poll(lk, job_id, "multi_stage_report")
    IN IF a.ret
       THEN LET result == run_agent("multi_stage_report", state,
                                    AgentOutcome("multi_stage_report", o))
                inc == increment_version(a.locks, job_id)
            IN [update |-> result,
                versions |-> IF IsRaise(result) THEN <<>> ELSE <<inc.ret>>,
                locks |-> release(IF IsRaise(result) THEN a.locks ELSE inc.locks,
                                  job_id, "multi_stage_report").locks]
       ELSE [update |->
                [history |-> <<[agent |-> "MultiStageReport",
                                entry |-> "FAILED - Could not acquire document lock"]>>],
             versions |-> <<>>,
             locks |-> lk]

----------------------------------------------------------------------------
(* The run behind the gate *)

\* supersteps a run has used when topic_gate lets it through: the gate
\* passed at the first poll, or after nine rounds of topic_discovery and
\* topic_lock
GateExitSteps == {2, 18}

\* the state topic_gate hands to orchestrator: the topic is locked, the two
\* gate nodes have written their findings and history
PipelineInit ==
    /\ NoStep
    /\ NoWriters
    /\ store = [available |-> FALSE, redis |-> EmptyDict, memory |-> EmptyDict]
    /\ \E task \in Tasks, paper_url \in PaperUrls, job_id \in RunJobIds :
           st = [InitialState(task, paper_url, job_id) EXCEPT
                    !.topic_locked = TRUE,
                    !.selected_topic = "User title A",
                    !.findings = [topic_discovery |-> LLMJson("vague"),
                                  topic_lock |-> [status |-> "locked",
                                                  title |-> "User title A"]],
                    !.history = <<[agent |-> "TopicDiscovery", entry |-> "Completed"],
                                  [agent |-> "TopicLock", entry |-> "Completed"]>>]
    /\ active = {"orchestrator"}
    /\ step \in GateExitSteps
    /\ status = "running"
    /\ writes = EmptyDict
    /\ faults = 0

\* the orchestrator node returns; its route is taken on its own update
OrchestratorNode(o) ==
    /\ status = "running" /\ "orchestrator" \in active
    /\ LET update == orchestrator_node(st, o) IN
       writes' = DictSet(writes, "orchestrator",
                         [update |-> update,
                          next |-> {route_strategy(ApplyUpdate(st, update))}])
    /\ active' = active \ {"orchestrator"}
    /\ UNCHANGED <<st, step, status, store, faults, lockVars>>
    /\ UNCHANGED stepVars

\* one of the scheduled run_agent nodes returns (or raises)
PlainNode(n, o) ==
    /\ status = "running" /\ n \in active /\ n \in PlainNodes
    /\ o = "ok" \/ faults < MaxFaults
    /\ faults' = IF o = "ok" THEN faults ELSE faults + 1
    /\ LET update == plain_node(n, st, o) IN
       IF IsRaise(update)
       THEN /\ status' = "raised"
            /\ UNCHANGED <<writes, active>>
       ELSE /\ writes' = DictSet(writes, n, [update |-> update, next |-> Edges[n]])
            /\ active' = active \ {n}
            /\ UNCHANGED status
    /\ UNCHANGED <<st, step, store, lockVars>>
    /\ UNCHANGED stepVars

\* the writer node of the main flow returns (or raises)
MultiStageReportNode(o) ==
    /\ status = "running" /\ "multi_stage_report" \in active
    /\ o = "ok" \/ faults < MaxFaults
    /\ faults' = IF o = "ok" THEN faults ELSE faults + 1
    /\ LET r == multi_stage_report_node(st, locks, o)
           job_id == st["_job_id"]
       IN /\ locks' = r.locks
          /\ reported' = [reported EXCEPT ![job_id] = @ \o r.versions]
          /\ IF IsRaise(r.update)
             THEN /\ status' = "raised"
                  /\ UNCHANGED <<writes, active>>
             ELSE /\ writes' = DictSet(writes, "multi_stage_report",
                                       [update |-> r.update,
                                        next |-> Edges["multi_stage_report"]])
                  /\ active' = active \ {"multi_stage_report"}
                  /\ UNCHANGED status
    /\ UNCHANGED <<st, step, store, wpc, wjob, wowner, wpolls, wresult, granted>>
    /\ UNCHANGED stepVars

\* end of the superstep: every scheduled node has returned, the updates go
\* through the reducers and the successors are scheduled; with no successor
\* invoke returns the state
Commit ==
    /\ status = "running" /\ active = {} /\ DOMAIN writes # {}
    /\ st' = ApplyAll(st, writes, NodeOrder)
    /\ LET next == UNION {writes[n].next : n \in DOMAIN writes} IN
       /\ active' = next
       /\ status' = IF next = {} THEN "done"
                    ELSE IF step + 1 >= RecursionLimit THEN "raised"
                    ELSE "running"
    /\ step' = step + 1
    /\ writes' = EmptyDict
    /\ UNCHANGED <<store, faults, lockVars>>
    /\ UNCHANGED stepVars

PipelineNext ==
    \/ \E o \in OrchestratorOutcomes : OrchestratorNode(o)
    \/ \E n \in PlainNodes, o \in StepOutcomes : PlainNode(n, o)
    \/ \E o \in StepOutcomes : MultiStageReportNode(o)
    \/ Commit

SpecPipeline == PipelineInit /\ [][PipelineNext]_vars

----------------------------------------------------------------------------
(* Claims on the run behind the gate *)

HistoryHas(agent_key, entry) ==
    \E i \in 1..Len(st.history) :
        st.history[i] = [agent |-> AgentName[agent_key], entry |-> entry]

\* a node is scheduled, has returned in this superstep, or ran earlier
Reached(n) ==
    \/ n \in active \/ n \in DOMAIN writes
    \/ HistoryHas(AgentKey[n], "Completed") \/ HistoryHas(AgentKey[n], "FAILED")
    \/ HistoryHas(AgentKey[n], "FAILED - Could not acquire document lock")

C10_ErrorInHistoryAndFindings ==
    \A n \in DOMAIN AgentKey :
        HistoryHas(AgentKey[n], "FAILED") => AgentKey[n] \in DOMAIN st.findings

\* C10 amended: a step that raised inside run_agent has a FAILED entry in
\* history and no entry in findings, and the successors of its node are
\* scheduled all the same.
C10_ErrorInHistoryOnly ==
    \A n \in DOMAIN AgentKey :
        HistoryHas(AgentKey[n], "FAILED") =>
            /\ AgentKey[n] \notin DOMAIN st.findings
            /\ \A m \in Edges[n] : Reached(m)

\* C10 witness: a step of the fan-out raised and the join after it has run.
C10_Witness ==
    /\ HistoryHas("slr", "FAILED")
    /\ HistoryHas("gap_synthesis", "Completed")

\* the history entries a step has written: one per execution of its node
HistoryCount(agent_key) ==
    Cardinality({i \in 1..Len(st.history) :
                    st.history[i].agent = AgentName[agent_key]})

\* position of a step's first entry in history, 0 when it has none
HistoryIndex(agent_key) ==
    LET I == {i \in 1..Len(st.history) :
                 st.history[i].agent = AgentName[agent_key]}
    IN IF I = {} THEN 0 ELSE CHOOSE i \in I : \A j \in I : i <= j

FanOut == {"historical_review", "slr", "news"}

PipelineA == {"domain_intelligence", "historical_review", "slr", "news",
              "gap_synthesis", "innovation"}

PipelineB == {"paper_decomposition", "understanding",
              "technical_verification", "critique"}

Scheduled(n) == n \in active \/ n \in DOMAIN writes

\* C11: whenever gap_synthesis is scheduled, historical_review, slr and news
\* have all returned and the state holds the findings keys of all three.
C11_JoinSeesAllThreeKeys ==
    Scheduled("gap_synthesis") => FanOut \subseteq DOMAIN st.findings

\* C11 amended: gap_synthesis runs at most once, and once in a finished
\* Pipeline A run; it is scheduled only when each of historical_review, slr
\* and news has run once, whatever their order, and the state then holds
\* the findings key of every one of the three that did not raise.
C11_JoinBarrier ==
    /\ HistoryCount("gap_synthesis") <= 1
    /\ (status = "done" /\ HistoryCount("domain_intelligence") = 1)
           => HistoryCount("gap_synthesis") = 1
    /\ Scheduled("gap_synthesis") =>
           \A k \in FanOut :
               /\ ~Scheduled(k)
               /\ HistoryCount(k) = 1
               /\ HistoryHas(k, "Completed") => k \in DOMAIN st.findings
               /\ HistoryHas(k, "FAILED") => k \notin DOMAIN st.findings

\* C11 witness: the join is scheduled after slr raised and the other two
\* branches succeeded.
C11_Witness ==
    /\ "gap_synthesis" \in active
    /\ HistoryHas("slr", "FAILED")
    /\ HistoryHas("historical_review", "Completed")
    /\ HistoryHas("news", "Completed")

\* C12: the nodes of Pipeline A and of Pipeline B never both run in one
\* run, no node runs twice, visualization, scoring and multi_stage_report
\* run in that order after the pipeline, and a run that reaches END has run
\* every node of exactly one pipeline and each of the three output nodes
\* exactly once.
C12_OnePipelineThenOutputs ==
    LET ran(n) == HistoryCount(AgentKey[n])
        pos(n) == HistoryIndex(AgentKey[n])
        touched(P) == \E n \in P : Scheduled(n) \/ ran(n) > 0
        all(P) == \A n \in P : ran(n) = 1
    IN /\ ~(touched(PipelineA) /\ touched(PipelineB))
       /\ \A n \in DOMAIN AgentKey : ran(n) <= 1
       /\ \A n \in DOMAIN AgentKey : Scheduled(n) => ran(n) = 0
       /\ (Scheduled("visualization") \/ ran("visualization") = 1)
             => (all(PipelineA) \/ all(PipelineB))
       /\ (Scheduled("scoring") \/ ran("scoring") = 1)
             => ran("visualization") = 1
       /\ (Scheduled("multi_stage_report") \/ ran("multi_stage_report") = 1)
             => ran("scoring") = 1
       /\ ran("scoring") = 1 => pos("visualization") < pos("scoring")
       /\ ran("multi_stage_report") = 1
             => pos("scoring") < pos("multi_stage_report")
       /\ \A n \in PipelineA \cup PipelineB :
              (ran(n) = 1 /\ ran("visualization") = 1)
                 => pos(n) < pos("visualization")
       /\ status = "done" =>
             /\ all({"visualization", "scoring", "multi_stage_report"})
             /\ all(PipelineA) \/ all(PipelineB)

\* C12 witness: a run has reached END through Pipeline B.
C12_Witness ==
    /\ status = "done"
    /\ HistoryCount("hallucination_detection") = 1
    /\ HistoryCount("multi_stage_report") = 1

----------------------------------------------------------------------------
(* agents/base.py: BaseAgent.run and the response cache *)

\* threads of the worker pool that are inside BaseAgent.run
NumThreads == 2

\* events of BaseAgent.run calls that are followed
MaxEvents == 6

Threads == 1..NumThreads

\* the (system_prompt, model_name, context) of a call; context is what
\* _truncate_context made of the state
SystemPrompts == {"You are a gap analyst."}

ModelNames == {"phi3:mini"}

Contexts == {"TASK: a", "TASK: b"}

Triples ==
    [system_prompt : SystemPrompts, model_name : ModelNames, context : Contexts]

\* what the model answers: two calls with one input need not answer alike
RawContents == {"{\"gaps\": 1}", "no JSON here"}

\* time.time() - start_time
Elapsed == {2}

\* input_signature = f"{self.system_prompt}:{self.model_name}:{context}"
input_signature(tr) ==
    tr.system_prompt \o ":" \o tr.model_name \o ":" \o tr.context

\* hashlib.sha256(text).hexdigest(), taken as injective
_compute_hash(text) == "sha256(" \o text \o ")"

\* _extract_json: the parsed object, or the raw text wrapped in a dict
_extract_json(text) ==
    IF text = "{\"gaps\": 1}" THEN [gaps |-> 1] ELSE [raw_text |-> text]

\* content of <hash>.json: open(path, "w") leaves the file empty until
\* json.dump has written it
Truncated == [complete |-> FALSE]

Written(data) == [complete |-> TRUE, data |-> data]

\* _get_from_cache with no entry found, whatever the directory holds
_get_from_cache_blind(files, hash_key) == EmptyDict

\* _get_from_cache: json.load of the file; None (taken as the empty dict,
\* falsy like it) when the file is missing or does not parse.  Keys and values of a result are strings, numbers and
\* dicts that came out of json.loads: json.load gives back what json.dump
\* was given.
_get_from_cache(files, hash_key) ==
    IF hash_key \in DOMAIN files /\ files[hash_key].complete
    THEN files[hash_key].data
    ELSE EmptyDict

\* the result dict of a successful call
Result(tr, raw_content, elapsed) ==
    [response |-> _extract_json(raw_content),
     raw |-> raw_content,
     agent |-> "GapSynthesis",
     execution_time |-> elapsed,
     input_hash |-> _compute_hash(input_signature(tr)),
     output_hash |-> _compute_hash(raw_content)]

\* the error payload of a failed call
ErrorPayload ==
    [error |-> "inference failed", raw |-> "Error during execution",
     agent |-> "GapSynthesis"]

IdleThread == [pc |-> "idle"]

CacheInit ==
    /\ NoWriters
    /\ NoRun
    /\ NoPool
    /\ NoExtra
    /\ cache = EmptyDict
    /\ cthr = [t \in Threads |-> IdleThread]
    /\ clog = <<>>

\* run() up to the cache test: on a hit the stored result is returned, on a
\* miss the thread goes on to the inference call
RunLookup(t, tr) ==
    /\ cthr[t].pc = "idle"
    /\ Len(clog) + 3 <= MaxEvents
    /\ LET input_hash == _compute_hash(input_signature(tr))
           cached_result == _get_from_cache(cache, input_hash)
           start == [ev |-> "start", t |-> t, hash |-> input_hash]
       IN IF DOMAIN cached_result # {}
          THEN /\ clog' = clog \o <<start, [ev |-> "end", t |-> t,
                                            hash |-> input_hash, hit |-> TRUE,
                                            result |-> cached_result]>>
               /\ UNCHANGED cthr
          ELSE /\ clog' = Append(clog, start)
               /\ cthr' = [cthr EXCEPT ![t] = [pc |-> "invoke", triple |-> tr]]
    /\ UNCHANGED <<cache, poolVars, lockVars, runVars, extraVars>>

\* self.llm.invoke(messages) answers and the result dict is prepared
RunInvoke(t, raw_content, elapsed) ==
    /\ cthr[t].pc = "invoke"
    /\ LET tr == cthr[t].triple IN
       /\ clog' = Append(clog, [ev |-> "infer", t |-> t,
                                hash |-> _compute_hash(input_signature(tr))])
       /\ cthr' = [cthr EXCEPT ![t] =
                      [pc |-> "save", triple |-> tr,
                       result |-> Result(tr, raw_content, elapsed)]]
    /\ UNCHANGED <<cache, poolVars, lockVars, runVars, extraVars>>

\* an except branch that also saves the payload it returns
RunInvokeFails_saves(t) ==
    /\ cthr[t].pc = "invoke"
    /\ LET input_hash == _compute_hash(input_signature(cthr[t].triple)) IN
       /\ clog' = clog \o <<[ev |-> "infer", t |-> t, hash |-> input_hash],
                            [ev |-> "end", t |-> t, hash |-> input_hash,
                             hit |-> FALSE, result |-> ErrorPayload]>>
       /\ cache' = DictSet(cache, input_hash, Written(ErrorPayload))
    /\ cthr' = [cthr EXCEPT ![t] = IdleThread]
    /\ UNCHANGED <<poolVars, lockVars, runVars, extraVars>>

\* self.llm.invoke(messages) raises: the except branch returns the error
\* payload and nothing is saved
RunInvokeFails(t) ==
    /\ cthr[t].pc = "invoke"
    /\ LET input_hash == _compute_hash(input_signature(cthr[t].triple)) IN
       clog' = clog \o <<[ev |-> "infer", t |-> t, hash |-> input_hash],
                         [ev |-> "end", t |-> t, hash |-> input_hash,
                          hit |-> FALSE, result |-> ErrorPayload]>>
    /\ cthr' = [cthr EXCEPT ![t] = IdleThread]
    /\ UNCHANGED <<cache, poolVars, lockVars, runVars, extraVars>>

\* _save_to_cache: open(cache_path, "w")
SaveOpen(t) ==
    /\ cthr[t].pc = "save"
    /\ cache' = DictSet(cache, cthr[t].result.input_hash, Truncated)
    /\ cthr' = [cthr EXCEPT ![t].pc = "write"]
    /\ UNCHANGED <<clog, poolVars, lockVars, runVars, extraVars>>

\* _save_to_cache: json.dump(data, f), and run() returns the result
SaveWrite(t) ==
    /\ cthr[t].pc = "write"
    /\ cache' = DictSet(cache, cthr[t].result.input_hash,
                        Written(cthr[t].result))
    /\ clog' = Append(clog, [ev |-> "end", t |-> t,
                             hash |-> cthr[t].result.input_hash,
                             hit |-> FALSE, result |-> cthr[t].result])
    /\ cthr' = [cthr EXCEPT ![t] = IdleThread]
    /\ UNCHANGED <<poolVars, lockVars, runVars, extraVars>>

CacheNext ==
    \/ \E t \in Threads, tr \in Triples : RunLookup(t, tr)
    \/ \E t \in Threads, raw_content \in RawContents, elapsed \in Elapsed :
           RunInvoke(t, raw_content, elapsed)
    \/ \E t \in Threads : RunInvokeFails(t)
    \/ \E t \in Threads : SaveOpen(t)
    \/ \E t \in Threads : SaveWrite(t)

SpecCache == CacheInit /\ [][CacheNext]_vars

----------------------------------------------------------------------------
(* Claims on the response cache *)

\* number of events of one kind among the first n of clog
EventCount(ev, n) == Cardinality({i \in 1..n : clog[i].ev = ev})

\* the call that starts at position i of clog ran with no other call's
\* event in between: the position of its end event, or 0
CallEnd(i) ==
    IF i + 1 <= Len(clog) /\ clog[i + 1].t = clog[i].t /\ clog[i + 1].ev = "end"
    THEN i + 1
    ELSE IF /\ i + 2 <= Len(clog)
            /\ clog[i + 1].t = clog[i].t /\ clog[i + 1].ev = "infer"
            /\ clog[i + 2].t = clog[i].t /\ clog[i + 2].ev = "end"
    THEN i + 2
    ELSE 0

\* two calls for one triple in sequence, the first a cache miss that starts
\* at position i of clog while no other call is under way: its end event is
\* at i + 2 and the second call starts at i + 3
SequentialPairs ==
    {i \in 1..Len(clog) :
        /\ clog[i].ev = "start"
        /\ EventCount("start", i - 1) = EventCount("end", i - 1)
        /\ CallEnd(i) = i + 2
        /\ i + 3 <= Len(clog)
        /\ clog[i + 3].ev = "start"
        /\ clog[i + 3].hash = clog[i].hash
        /\ CallEnd(i + 3) # 0}

C14_AtMostOneInference ==
    \A i, j \in 1..Len(clog) :
        (clog[i].ev = "infer" /\ clog[j].ev = "infer"
            /\ clog[i].hash = clog[j].hash) => i = j

----------------------------------------------------------------------------
(* llm/factory.py and llm/groq_provider.py: the provider pool *)

\* API keys configured for a hosted backend, at most
MaxKeys == 2

\* calls into the llm package that are followed, over all threads
MaxOps == 3

\* calls of invoke_with_retry among them
MaxRetryCalls == 1

\* groq_provider.py: rate-limit retry configuration
MAX_RETRIES == 3

INITIAL_BACKOFF_SECONDS == 1

BACKOFF_MULTIPLIER == 2

\* model names asked of the factory with LLM_STATUS=ONLINE
PoolModels == {"llama3-70b-8192", "openrouter/auto"}

\* messages of the exceptions llm.invoke raises
ErrorMessages == {"Error code: 429 - Rate limit reached", "Connection error."}

\* the classification in invoke_with_retry: "429", "rate_limit",
\* "rate limit" or "too many requests" occurs in str(e).lower()
is_rate_limit(error_str) == error_str = "Error code: 429 - Rate limit reached"

\* _resolve_online_provider: the provider class a model name is routed to
_resolve_online_provider(model_name) ==
    CASE model_name = "openrouter/auto" -> "openrouter"
      [] model_name = "gemini/gemini-pro" -> "gemini"
      [] OTHER -> "groq"

\* GroqProvider.__init__; selected is history: how often each key index was
\* handed out by _get_next_key_index
GroqProvider(api_keys, model_name) ==
    [kind |-> "groq", model_name |-> model_name, api_keys |-> api_keys,
     _key_index |-> 0, _llm_cache |-> EmptyDict,
     _rate_limit_hits |-> [i \in 0..(api_keys - 1) |-> 0],
     selected |-> [i \in 0..(api_keys - 1) |-> 0]]

\* OpenRouterProvider(...) and GeminiProvider(...): neither class defines
\* the abstract property provider_name of LLMProvider, so the constructor
\* call raises TypeError before __init__ runs
AbstractInstantiation ==
    [msg |-> "TypeError: Can't instantiate abstract class", attempt |-> 0]

\* OpenRouterProvider.get_langchain_llm / GeminiProvider.get_langchain_llm:
\* the key at _current_key_idx, which the call does not advance
get_langchain_llm_current(p) == [idx |-> p._key_index, provider |-> p]

Max(a, b) == IF a >= b THEN a ELSE b

\* _get_next_key_index that hands out the index without advancing it
_get_next_key_index_stuck(p) == [idx |-> p._key_index, provider |-> p]

\* _get_next_key_index (under self._lock): the index handed out and the
\* provider afterwards
_get_next_key_index(p) ==
    [idx |-> p._key_index,
     provider |-> [p EXCEPT !._key_index = (p._key_index + 1) % Max(p.api_keys, 1),
                            !.selected[p._key_index] = @ + 1]]

\* the handler that retries a rate-limit error on a single key as well
should_retry_single_key(error_str, p) == is_rate_limit(error_str)

\* if is_rate_limit and len(self.api_keys) > 1
should_retry(error_str, p) == is_rate_limit(error_str) /\ p.api_keys > 1

\* for attempt in range(MAX_RETRIES), without its end
range_has_next_unbounded(attempt) == TRUE

\* for attempt in range(MAX_RETRIES): there is an attempt after this one
range_has_next(attempt) == attempt + 1 < MAX_RETRIES

NoOut == [kind |-> "none"]

NoError == [msg |-> "None", attempt |-> 0]

\* a thread outside the llm package; ops counts its finished calls, llm is
\* the handle its last _get_llm returned
InitThread ==
    [pc |-> "idle", op |-> "none", ops |-> 0, retry_calls |-> 0, model |-> "None", provider |-> 0,
     key_idx |-> 0, llm |-> [id |-> 0, key_idx |-> 0, provider |-> 0],
     attempt |-> 0, backoff |-> 0, exc |-> NoError, last_exception |-> NoError,
     sleeps |-> <<>>, used |-> <<>>, results |-> <<>>, evicted |-> <<>>,
     interfered |-> FALSE, out |-> NoOut]

PoolInit ==
    /\ NoWriters
    /\ NoRun
    /\ NoCache
    /\ NoExtra
    /\ pcache = EmptyDict
    /\ providers = EmptyDict
    /\ thr = [t \in Threads |-> InitThread]
    /\ nextId = 0
    /\ \E k \in 1..MaxKeys : cfg = [GROQ_API_KEYS |-> k, OPENROUTER_API_KEYS |-> k]

\* calls started so far
RECURSIVE OpsStarted(_)
OpsStarted(T) ==
    IF T = {} THEN 0
    ELSE LET t == CHOOSE u \in T : TRUE
         IN thr[t].ops + (IF thr[t].pc = "idle" THEN 0 ELSE 1)
               + OpsStarted(T \ {t})

\* calls of invoke_with_retry started so far
RECURSIVE RetryCallsStarted(_)
RetryCallsStarted(T) ==
    IF T = {} THEN 0
    ELSE LET t == CHOOSE u \in T : TRUE
         IN thr[t].retry_calls + RetryCallsStarted(T \ {t})

\* the locals of a call that starts
Fresh(t, op, model, p) ==
    [InitThread EXCEPT !.ops = thr[t].ops, !.llm = thr[t].llm, !.op = op,
                       !.retry_calls = thr[t].retry_calls,
                       !.model = model, !.provider = p]

\* the call returns or raises
Finish(r, out) == [r EXCEPT !.pc = "idle", !.ops = @ + 1, !.out = out]

\* BaseAgent._get_llm: get_llm_provider(model_name).get_langchain_llm()
StartGetLLM(t, model_name) ==
    /\ thr[t].pc = "idle" /\ OpsStarted(Threads) < MaxOps
    /\ thr' = [thr EXCEPT ![t] =
                  [Fresh(t, "_get_llm", model_name, 0) EXCEPT !.pc = "provider_lookup"]]
    /\ UNCHANGED <<pcache, providers, nextId, cfg, cacheVars, lockVars, runVars, extraVars>>

\* provider.invoke_with_retry(messages) on a provider the factory returned
StartInvokeWithRetry(t, p) ==
    /\ thr[t].pc = "idle" /\ OpsStarted(Threads) < MaxOps
    /\ RetryCallsStarted(Threads) < MaxRetryCalls
    /\ p \in DOMAIN providers
    /\ thr' = [thr EXCEPT ![t] =
                  [Fresh(t, "invoke_with_retry", providers[p].model_name, p)
                      EXCEPT !.pc = "next_key", !.retry_calls = @ + 1,
                             !.backoff = INITIAL_BACKOFF_SECONDS]]
    /\ UNCHANGED <<pcache, providers, nextId, cfg, cacheVars, lockVars, runVars, extraVars>>

\* BaseAgent.run: self.llm.invoke(messages) on the handle of __init__
StartRun(t) ==
    /\ thr[t].pc = "idle" /\ OpsStarted(Threads) < MaxOps
    /\ thr[t].llm.id # 0
    /\ thr' = [thr EXCEPT ![t] =
                  [Fresh(t, "run", providers[thr[t].llm.provider].model_name,
                         thr[t].llm.provider)
                      EXCEPT !.pc = "invoke", !.key_idx = thr[t].llm.key_idx]]
    /\ UNCHANGED <<pcache, providers, nextId, cfg, cacheVars, lockVars, runVars, extraVars>>

\* get_llm_provider: if cache_key in _PROVIDER_CACHE
ProviderLookup(t) ==
    /\ thr[t].pc = "provider_lookup"
    /\ LET cache_key == "ONLINE:" \o thr[t].model IN
       thr' = [thr EXCEPT ![t] =
                  IF cache_key \in DOMAIN pcache
                  THEN [@ EXCEPT !.provider = pcache[cache_key], !.pc = "next_key"]
                  ELSE [@ EXCEPT !.pc = "provider_create"]]
    /\ UNCHANGED <<pcache, providers, nextId, cfg, cacheVars, lockVars, runVars, extraVars>>

\* get_llm_provider: the provider is constructed and stored under cache_key
ProviderCreate(t) ==
    /\ thr[t].pc = "provider_create"
    /\ LET cache_key == "ONLINE:" \o thr[t].model IN
       IF _resolve_online_provider(thr[t].model) = "groq"
       THEN /\ nextId' = nextId + 1
            /\ providers' = DictSet(providers, nextId + 1,
                                    GroqProvider(cfg.GROQ_API_KEYS, thr[t].model))
            /\ pcache' = DictSet(pcache, cache_key, nextId + 1)
            /\ thr' = [thr EXCEPT ![t].provider = nextId + 1, ![t].pc = "next_key"]
       ELSE /\ thr' = [thr EXCEPT ![t] =
                          Finish(@, [kind |-> "raised", error |-> AbstractInstantiation])]
            /\ UNCHANGED <<pcache, providers, nextId>>
    /\ UNCHANGED <<cfg, cacheVars, lockVars, runVars, extraVars>>

\* get_langchain_llm: key_idx = self._get_next_key_index()
NextKey(t) ==
    /\ thr[t].pc = "next_key"
    /\ LET p == thr[t].provider
           r == IF providers[p].kind = "groq"
                THEN _get_next_key_index(providers[p])
                ELSE get_langchain_llm_current(providers[p])
       IN /\ providers' = [providers EXCEPT ![p] = r.provider]
          /\ thr' = [u \in Threads |->
                        IF u = t
                        THEN [thr[t] EXCEPT !.key_idx = r.idx, !.pc = "client_test"]
                        ELSE IF /\ thr[u].pc # "idle"
                                /\ thr[u].op = "invoke_with_retry"
                                /\ thr[u].provider = p
                        THEN [thr[u] EXCEPT !.interfered = TRUE]
                        ELSE thr[u]]
    /\ UNCHANGED <<pcache, nextId, cfg, cacheVars, lockVars, runVars, extraVars>>

\* get_langchain_llm: if key_idx not in self._llm_cache
ClientTest(t) ==
    /\ thr[t].pc = "client_test"
    /\ thr' = [thr EXCEPT ![t].pc =
                  IF thr[t].key_idx \in DOMAIN providers[thr[t].provider]._llm_cache
                  THEN "client_return" ELSE "client_create"]
    /\ UNCHANGED <<pcache, providers, nextId, cfg, cacheVars, lockVars, runVars, extraVars>>

\* get_langchain_llm: self._llm_cache[key_idx] = self._create_llm_for_key(key_idx)
ClientCreate(t) ==
    /\ thr[t].pc = "client_create"
    /\ nextId' = nextId + 1
    /\ providers' = [providers EXCEPT ![thr[t].provider]._llm_cache =
                        DictSet(@, thr[t].key_idx, nextId + 1)]
    /\ thr' = [thr EXCEPT ![t].pc = "client_return"]
    /\ UNCHANGED <<pcache, cfg, cacheVars, lockVars, runVars, extraVars>>

\* get_langchain_llm: return self._llm_cache[key_idx]; KeyError when the
\* entry was popped in between
ClientReturn(t) ==
    /\ thr[t].pc = "client_return"
    /\ LET p == thr[t].provider
           key_idx == thr[t].key_idx
           KeyError == [msg |-> "KeyError", attempt |-> thr[t].attempt + 1]
       IN thr' = [thr EXCEPT ![t] =
              IF key_idx \notin DOMAIN providers[p]._llm_cache
              THEN IF thr[t].op = "invoke_with_retry"
                   THEN [@ EXCEPT !.exc = KeyError, !.pc = "except"]
                   ELSE Finish(@, [kind |-> "raised", error |-> KeyError])
              ELSE LET llm == [id |-> providers[p]._llm_cache[key_idx],
                               key_idx |-> key_idx, provider |-> p]
                   IN IF thr[t].op = "invoke_with_retry"
                      THEN [@ EXCEPT !.llm = llm, !.pc = "invoke"]
                      ELSE Finish([@ EXCEPT !.llm = llm],
                                  [kind |-> "returned", value |-> "llm"])]
    /\ UNCHANGED <<pcache, providers, nextId, cfg, cacheVars, lockVars, runVars, extraVars>>

\* llm.invoke(messages) answers
InvokeOk(t) ==
    /\ thr[t].pc = "invoke"
    /\ thr' = [thr EXCEPT ![t] =
                  Finish([@ EXCEPT !.used = Append(@, thr[t].llm.key_idx),
                                   !.results = Append(@, "ok")],
                         [kind |-> "returned", value |-> "response"])]
    /\ UNCHANGED <<pcache, providers, nextId, cfg, cacheVars, lockVars, runVars, extraVars>>

\* llm.invoke(messages) raises: invoke_with_retry goes to its handler,
\* BaseAgent.run returns the error payload
InvokeRaises(t, error_str) ==
    /\ thr[t].pc = "invoke"
    /\ LET r == [thr[t] EXCEPT !.used = Append(@, thr[t].llm.key_idx),
                               !.results = Append(@, error_str)]
       IN thr' = [thr EXCEPT ![t] =
              IF thr[t].op = "invoke_with_retry"
              THEN [r EXCEPT !.exc = [msg |-> error_str,
                                      attempt |-> thr[t].attempt + 1],
                             !.pc = "except"]
              ELSE Finish(r, [kind |-> "returned", value |-> "error payload"])]
    /\ UNCHANGED <<pcache, providers, nextId, cfg, cacheVars, lockVars, runVars, extraVars>>

\* invoke_with_retry: the except branch, and the raise behind the loop
Except(t) ==
    /\ thr[t].pc = "except"
    /\ LET p == providers[thr[t].provider]
           e == thr[t].exc
           current_idx == (p._key_index - 1) % p.api_keys
       IN IF should_retry(e.msg, p)
          THEN /\ providers' =
                     [providers EXCEPT ![thr[t].provider] =
                         [p EXCEPT !._rate_limit_hits[current_idx] = @ + 1,
                                   !._llm_cache = DictDel(@, current_idx)]]
               /\ LET r == [thr[t] EXCEPT !.sleeps = Append(@, thr[t].backoff),
                                          !.backoff = @ * BACKOFF_MULTIPLIER,
                                          !.evicted = Append(@, current_idx),
                                          !.last_exception = e,
                                          !.attempt = @ + 1]
                  IN thr' = [thr EXCEPT ![t] =
                         IF range_has_next(thr[t].attempt)
                         THEN [r EXCEPT !.pc = "next_key"]
                         ELSE Finish(r, [kind |-> "raised", error |-> e])]
          ELSE /\ thr' = [thr EXCEPT ![t] =
                             Finish([@ EXCEPT !.attempt = @ + 1],
                                    [kind |-> "raised", error |-> e])]
               /\ UNCHANGED providers
    /\ UNCHANGED <<pcache, nextId, cfg, cacheVars, lockVars, runVars, extraVars>>

PoolNext ==
    \/ \E t \in Threads, model_name \in PoolModels : StartGetLLM(t, model_name)
    \/ \E t \in Threads, p \in DOMAIN providers : StartInvokeWithRetry(t, p)
    \/ \E t \in Threads : StartRun(t)
    \/ \E t \in Threads : ProviderLookup(t)
    \/ \E t \in Threads : ProviderCreate(t)
    \/ \E t \in Threads : NextKey(t)
    \/ \E t \in Threads : ClientTest(t)
    \/ \E t \in Threads : ClientCreate(t)
    \/ \E t \in Threads : ClientReturn(t)
    \/ \E t \in Threads : InvokeOk(t)
    \/ \E t \in Threads, error_str \in ErrorMessages : InvokeRaises(t, error_str)
    \/ \E t \in Threads : Except(t)

SpecPool == PoolInit /\ [][PoolNext]_vars

----------------------------------------------------------------------------
(* Claims on the provider pool *)

RetryCall(t) == thr[t].op = "invoke_with_retry"

Finished(t) == thr[t].pc = "idle" /\ thr[t].out.kind # "none"

Keys(t) == providers[thr[t].provider].api_keys

\* C15: with two keys and no other caller of the provider in between, a
\* rate-limited first invocation has its own key's client dropped from the
\* cache, the next invocation goes to the other key, and when that one
\* answers invoke_with_retry returns the response.
C15_RetryWithOtherCredential ==
    \A t \in Threads :
        (/\ RetryCall(t) /\ Keys(t) = 2 /\ ~thr[t].interfered
         /\ Len(thr[t].results) >= 1 /\ is_rate_limit(thr[t].results[1]))
        => /\ thr[t].pc # "except" => Len(thr[t].evicted) >= 1
           /\ Len(thr[t].evicted) >= 1 =>
                 /\ thr[t].evicted[1] = thr[t].used[1]
                 /\ thr[t].sleeps[1] = INITIAL_BACKOFF_SECONDS
           /\ Len(thr[t].used) >= 2 => thr[t].used[2] # thr[t].used[1]
           /\ (Len(thr[t].results) >= 2 /\ thr[t].results[2] = "ok") =>
                 /\ Finished(t)
                 /\ thr[t].out = [kind |-> "returned", value |-> "response"]
                 /\ Len(thr[t].used) = 2

\* C15 witness: a call with two keys returned after a rate-limited first
\* invocation and a successful second one.
C15_Witness ==
    \E t \in Threads :
        /\ RetryCall(t) /\ Finished(t) /\ Keys(t) = 2 /\ ~thr[t].interfered
        /\ thr[t].results = <<"Error code: 429 - Rate limit reached", "ok">>
        /\ thr[t].out.kind = "returned"

\* C16: BaseAgent.run hands back the error payload of a rate-limited
\* inference only after MAX_RETRIES invocations, when the pool has more
\* than one key.
C16_RateLimitRetriedBeforeFailure ==
    \A t \in Threads :
        (/\ thr[t].op = "run" /\ Finished(t) /\ Keys(t) > 1
         /\ thr[t].out = [kind |-> "returned", value |-> "error payload"]
         /\ is_rate_limit(thr[t].results[1]))
        => Len(thr[t].used) = MAX_RETRIES

\* C17: a call of invoke_with_retry makes at most MAX_RETRIES invocations
\* and is over after its MAX_RETRIES-th attempt; when every attempt was
\* rate-limited it raises the error of the last one.
C17_BoundedRetries ==
    \A t \in Threads :
        RetryCall(t) =>
            /\ Len(thr[t].used) <= MAX_RETRIES
            /\ thr[t].attempt <= MAX_RETRIES
            /\ thr[t].attempt = MAX_RETRIES => Finished(t)
            /\ (/\ Finished(t)
                /\ Len(thr[t].results) >= 1
                /\ thr[t].attempt = Len(thr[t].results)
                /\ \A i \in 1..Len(thr[t].results) : is_rate_limit(thr[t].results[i]))
               => thr[t].out =
                     [kind |-> "raised",
                      error |-> [msg |-> thr[t].results[Len(thr[t].results)],
                                 attempt |-> Len(thr[t].results)]]

\* C17 witness: three rate-limited attempts, and the call has raised.
C17_Witness ==
    \E t \in Threads :
        /\ RetryCall(t) /\ Finished(t)
        /\ Len(thr[t].results) = MAX_RETRIES
        /\ \A i \in 1..MAX_RETRIES : is_rate_limit(thr[t].results[i])
        /\ thr[t].out.kind = "raised"

\* the step of thread t that leaves the except branch of invoke_with_retry
\* with an error that is not rate-limited, or with a single key
PropagatingStep(t) ==
    /\ thr[t].pc = "except" /\ thr'[t].pc # "except"
    /\ ~is_rate_limit(thr[t].exc.msg) \/ Keys(t) = 1

\* C18: an error that is not classified as rate-limited, or any error with
\* a single key, is raised by the handler at once: no further invocation,
\* no sleep, no client dropped from the cache, no counter changed; a call
\* on a single key makes one invocation at most.
C18_ImmediatePropagation ==
    /\ [][\A t \in Threads :
             PropagatingStep(t) =>
                /\ thr'[t].pc = "idle"
                /\ thr'[t].out = [kind |-> "raised", error |-> thr[t].exc]
                /\ thr'[t].used = thr[t].used
                /\ thr'[t].sleeps = thr[t].sleeps
                /\ thr'[t].evicted = thr[t].evicted
                /\ providers' = providers]_vars
    /\ [](\A t \in Threads :
             (RetryCall(t) /\ Keys(t) = 1) =>
                /\ Len(thr[t].used) <= 1
                /\ thr[t].sleeps = <<>> /\ thr[t].evicted = <<>>
                /\ providers[thr[t].provider]._rate_limit_hits[0] = 0)

\* C18 witness: a call on a single key has raised the rate-limit error of
\* its first invocation.
C18_Witness ==
    \E t \in Threads :
        /\ RetryCall(t) /\ Finished(t) /\ Keys(t) = 1
        /\ thr[t].results = <<"Error code: 429 - Rate limit reached">>
        /\ thr[t].out.kind = "raised"

RECURSIVE SumOver(_, _)
SumOver(f, D) ==
    IF D = {} THEN 0
    ELSE LET x == CHOOSE y \in D : TRUE IN f[x] + SumOver(f, D \ {x})

\* C19: for every hosted backend kind a handle construction hands out a
\* key, and whenever the number N of constructions on a provider is a
\* multiple of its K keys each key was handed out N/K times.
C19_RotationFairness ==
    /\ \A p \in DOMAIN providers :
          LET K == providers[p].api_keys
              N == SumOver(providers[p].selected, 0..(K - 1))
          IN N % K = 0 =>
                \A i \in 0..(K - 1) : providers[p].selected[i] = N \div K
    /\ \A t \in Threads :
          (/\ thr[t].op = "_get_llm" /\ Finished(t)
           /\ _resolve_online_provider(thr[t].model) # "groq")
          => thr[t].out.kind = "returned"

\* C20: no two provider objects are made for one (mode, model), and no two
\* threads are about to make a client for one key of one provider.
C20_OneInstancePerKey ==
    /\ \A p, q \in DOMAIN providers :
          providers[p].model_name = providers[q].model_name => p = q
    /\ \A t, u \in Threads :
          (/\ thr[t].pc = "client_create" /\ thr[u].pc = "client_create"
           /\ thr[t].provider = thr[u].provider
           /\ thr[t].key_idx = thr[u].key_idx)
          => t = u

\* ------------------------------------------------------------------------
\* Context budgeting: BaseAgent._truncate_context and _smart_truncate
\* (agents/base.py).  Strings are modelled by what the code reads of them:
\* their length and, for a serialised dict, the lengths of its items.

\* json.dumps({"task": "", "paper_url": "", "_job_id": ""}) has 44 characters
CoreSkeletonLen == 44

\* remaining_chars = max_chars - len(core_str) - 2000
BufferChars == 2000

\* max_chars = max_tokens * 4
CharsPerToken == 4

\* len("...(truncated)")
SuffixLen == 14

CoreFields == {"task", "paper_url", "_job_id"}

priority_order ==
    << "domain_intelligence", "historical_review", "slr", "gap_synthesis",
       "innovation_novelty", "visualization", "paper_decomposition",
       "paper_understanding" >>

\* the keys of findings the inputs use; "scoring" is not in priority_order
FindingKeys == {"domain_intelligence", "slr", "scoring"}

\* lengths of the task text of the inputs
TaskLens == {9, 14336}

\* the core fields of the inputs, each with the length of its string
Cores ==
    UNION { { [k \in {"task", "_job_id"} |->
                 IF k = "task" THEN t ELSE 3],
              [k \in CoreFields |->
                 IF k = "task" THEN t ELSE IF k = "paper_url" THEN 30 ELSE 3] }
            : t \in TaskLens }

\* an entry of findings: a text (items holds its length) or a dict (items
\* holds the length of each serialised "key": value pair, in order)
Entries ==
    { [kind |-> "str", items |-> <<n>>] : n \in {16, 20000} }
    \cup { [kind |-> "dict", items |-> s] :
              s \in { <<>>, <<30, 6000>>, <<9000, 9000>> } }

FindingsMaps == UNION { [D -> Entries] : D \in SUBSET FindingKeys }

BudgetStates == { [core |-> c, findings |-> f] : c \in Cores, f \in FindingsMaps }

MaxTokens == {10, 100, 4096}

RECURSIVE SeqSum(_)
SeqSum(s) == IF s = <<>> THEN 0 ELSE Head(s) + SeqSum(Tail(s))

\* len(json.dumps(d)) of a dict whose items serialise to the given lengths
dumps_len(items) ==
    IF items = <<>> THEN 2 ELSE 2 + SeqSum(items) + 2 * (Len(items) - 1)

\* len(entry_str): json.dumps(entry) of a dict, str(entry) otherwise
entry_str_len(entry) ==
    IF entry.kind = "dict" THEN dumps_len(entry.items) ELSE entry.items[1]

\* the data.popitem() loop of _smart_truncate
RECURSIVE popitem_loop(_, _)
popitem_loop(items, max_chars) ==
    IF dumps_len(items) > max_chars /\ Len(items) > 0
    THEN popitem_loop(SubSeq(items, 1, Len(items) - 1), max_chars)
    ELSE items

\* the fallback of _smart_truncate: text[:max_chars] + "...(truncated)"
smart_truncate_slice(entry, max_chars) ==
    [whole |-> FALSE, kind |-> "str", items |-> <<max_chars + SuffixLen>>,
     len |-> max_chars + SuffixLen]

\* _smart_truncate(text, max_chars) on text = entry_str: the string returned,
\* with its length
_smart_truncate(entry, max_chars) ==
    IF entry_str_len(entry) <= max_chars
    THEN [whole |-> TRUE, kind |-> "str", items |-> entry.items,
          len |-> entry_str_len(entry)]
    ELSE IF entry.kind = "dict"
    THEN LET data == popitem_loop(entry.items, max_chars)
         IN [whole |-> FALSE, kind |-> "str", items |-> data,
             len |-> dumps_len(data)]
    ELSE smart_truncate_slice(entry, max_chars)

core_str_len(state) ==
    CoreSkeletonLen + Get(state.core, "task", 0)
    + Get(state.core, "paper_url", 0) + Get(state.core, "_job_id", 0)

max_chars_of(max_tokens) == max_tokens * CharsPerToken

remaining_after_core(state, max_tokens) ==
    max_chars_of(max_tokens) - core_str_len(state) - BufferChars

\* the loop over priority_order from position i on; acc is truncated_findings
RECURSIVE allocate(_, _, _, _)
allocate(findings, i, remaining_chars, acc) ==
    IF i > Len(priority_order) THEN acc
    ELSE LET key == priority_order[i] IN
         IF key \notin DOMAIN findings
         THEN allocate(findings, i + 1, remaining_chars, acc)
         ELSE LET entry == findings[key]
                  n == entry_str_len(entry)
              IN IF n < remaining_chars
                 THEN allocate(findings, i + 1, remaining_chars - n,
                               (key :> [whole |-> TRUE, kind |-> entry.kind,
                                        items |-> entry.items, len |-> n,
                                        budget |-> remaining_chars]) @@ acc)
                 ELSE (key :> (_smart_truncate(entry, remaining_chars)
                               @@ [budget |-> remaining_chars])) @@ acc

\* the branch "if not findings or remaining_chars <= 0" taken at any budget
truncate_context_never_budgets(state, max_tokens) ==
    [whole_state |-> TRUE,
     core |-> DOMAIN state.core,
     findings |-> [k \in DOMAIN state.findings |->
                     [whole |-> TRUE, kind |-> state.findings[k].kind,
                      items |-> state.findings[k].items,
                      len |-> entry_str_len(state.findings[k]),
                      budget |-> remaining_after_core(state, max_tokens)]]]

\* _truncate_context(state, max_tokens): the document returned, as the core
\* fields it has and its findings
_truncate_context(state, max_tokens) ==
    LET remaining_chars == remaining_after_core(state, max_tokens) IN
    IF state.findings = EmptyDict \/ remaining_chars <= 0
    THEN truncate_context_never_budgets(state, max_tokens)
    ELSE [whole_state |-> FALSE,
          core |-> CoreFields,
          findings |-> allocate(state.findings, 1, remaining_chars, EmptyDict)]

BudgetInit ==
    /\ NoWriters
    /\ NoRun
    /\ NoCache
    /\ NoPool
    /\ bin \in { [state |-> s, max_tokens |-> m] : s \in BudgetStates, m \in MaxTokens }
    /\ bout = EmptyDict
    /\ call = EmptyDict
    /\ mstore = EmptyDict
    /\ slog = EmptyDict
    /\ tel = EmptyDict

TruncateContext ==
    /\ bout = EmptyDict
    /\ bout' = _truncate_context(bin.state, bin.max_tokens)
    /\ UNCHANGED <<bin, call, mstore, slog, tel, cacheVars, poolVars, lockVars, runVars>>

BudgetNext == TruncateContext

SpecBudget == BudgetInit /\ [][BudgetNext]_vars

Budgeted == bout # EmptyDict

\* C21: the core fields of the state are all in the output, and when
\* max_chars is smaller than the length of the core payload the output
\* has no findings.
C21_FloorOmitsFindings ==
    Budgeted =>
       /\ DOMAIN bin.state.core \subseteq bout.core
       /\ max_chars_of(bin.max_tokens) < core_str_len(bin.state)
          => DOMAIN bout.findings = {}

\* C22: when the budgeter allocates, every finding of the output is a
\* finding of the state taken in priority order; it is whole when it fits
\* the budget left at its turn and otherwise takes no more characters than
\* that budget, and after a truncated finding no finding of lower priority
\* is in the output.
C22_PriorityAllocation ==
    (Budgeted /\ ~bout.whole_state) =>
       \A i \in 1..Len(priority_order) :
          LET key == priority_order[i] IN
          key \in DOMAIN bout.findings =>
             LET v == bout.findings[key] IN
             /\ key \in DOMAIN bin.state.findings
             /\ v.len <= v.budget
             /\ v.whole <=> entry_str_len(bin.state.findings[key]) <= v.budget
             /\ v.whole => v.items = bin.state.findings[key].items
             /\ ~v.whole =>
                   \A j \in (i + 1)..Len(priority_order) :
                      priority_order[j] \notin DOMAIN bout.findings

\* ------------------------------------------------------------------------
\* Telemetry of a step: run_agent (graph/full_pipeline.py) around
\* BaseAgent.run (agents/base.py), with the calls to the event emitter
\* (utils/event_emitter.py), the metrics counters and the token tracker.
\* Every telemetry call may fail; where the exception goes is decided by the
\* try blocks of the code.

TelAgentKeys == {"gap_synthesis", "scoring"}

\* what the step does apart from telemetry: a cache hit, a successful
\* inference, a failed inference, or a run() that raises
TelPaths == {"hit", "ok", "error", "raise"}

\* what happens inside a telemetry call: requests.post answers 200, answers
\* another status, or raises; a counter or the tracker works or raises
TelFaults == {"ok", "http_error", "exception"}

\* research_id = int(job_id) if str(job_id).isdigit() else None; 0 stands
\* for None, which the emitter tests the same way ("or", "if not")
research_id_of(job_id) == IF isdigit(job_id) THEN int(job_id) ELSE 0

\* emit_event without its try/except around requests.post
emit_event_unguarded(research_id, current_job_id, transport) ==
    LET job_id == IF research_id # 0 THEN research_id ELSE current_job_id IN
    IF job_id = 0
    THEN [raised |-> FALSE, posted |-> FALSE]
    ELSE [raised |-> transport = "exception", posted |-> transport = "ok"]

\* emit_event, and with it emit_agent_start, emit_agent_complete and
\* emit_error, which only pass their arguments on: no post without a job
\* id; ConnectionError and every other Exception of the post are caught
emit_event(research_id, current_job_id, transport) ==
    LET job_id == IF research_id # 0 THEN research_id ELSE current_job_id IN
    IF job_id = 0
    THEN [raised |-> FALSE, posted |-> FALSE]
    ELSE [raised |-> FALSE, posted |-> transport = "ok"]

\* try: metrics_inc(...); metrics_timing(...) except Exception: pass, and
\* try: track_agent_usage(...) except Exception: logger.warning(...)
guarded_call(fault) == [raised |-> FALSE, posted |-> fault = "ok"]

\* the telemetry calls in the order of the code: what is called and which
\* try block the call is in
TelProgram ==
    [ra_emit_start       |-> [kind |-> "emit",    region |-> "run_agent_try"],
     run_emit_start      |-> [kind |-> "emit",    region |-> "run_before_try"],
     run_metrics_runs    |-> [kind |-> "metrics", region |-> "run_before_try"],
     run_hit_complete    |-> [kind |-> "emit",    region |-> "run_before_try"],
     run_hit_metrics     |-> [kind |-> "metrics", region |-> "run_before_try"],
     run_ok_metrics      |-> [kind |-> "metrics", region |-> "run_try"],
     run_ok_track        |-> [kind |-> "track",   region |-> "run_try"],
     run_ok_complete     |-> [kind |-> "emit",    region |-> "run_try"],
     run_err_track       |-> [kind |-> "track",   region |-> "run_except"],
     run_err_complete    |-> [kind |-> "emit",    region |-> "run_except"],
     run_err_emit_error  |-> [kind |-> "emit",    region |-> "run_except"],
     run_err_metrics     |-> [kind |-> "metrics", region |-> "run_except"],
     ra_complete         |-> [kind |-> "emit",    region |-> "run_agent_try"],
     ra_emit_error       |-> [kind |-> "emit",    region |-> "run_agent_try"],
     ra_exc_complete     |-> [kind |-> "emit",    region |-> "run_agent_except"],
     ra_exc_emit_error   |-> [kind |-> "emit",    region |-> "run_agent_except"]]

\* the position after a telemetry call that returned
TelAfter(pc, result) ==
    CASE pc = "ra_emit_start"      -> "agent_run"
      [] pc = "run_emit_start"     -> "run_metrics_runs"
      [] pc = "run_metrics_runs"   -> "run_cache"
      [] pc = "run_hit_complete"   -> "run_hit_metrics"
      [] pc = "run_hit_metrics"    -> "ra_complete"
      [] pc = "run_ok_metrics"     -> "run_ok_track"
      [] pc = "run_ok_track"       -> "run_save"
      [] pc = "run_ok_complete"    -> "ra_complete"
      [] pc = "run_err_track"      -> "run_err_complete"
      [] pc = "run_err_complete"   -> "run_err_emit_error"
      [] pc = "run_err_emit_error" -> "run_err_metrics"
      [] pc = "run_err_metrics"    -> "ra_complete"
      [] pc = "ra_complete"        ->
            IF "error" \in DOMAIN result THEN "ra_emit_error" ELSE "ra_return"
      [] pc = "ra_emit_error"      -> "ra_return"
      [] pc = "ra_exc_complete"    -> "ra_exc_emit_error"
      [] pc = "ra_exc_emit_error"  -> "ra_exc_return"

\* where an exception raised in a region is handled: the except branch of
\* BaseAgent.run, the except branch of run_agent, or nowhere
TelHandler(region) ==
    CASE region = "run_try"          -> "run_err_track"
      [] region = "run_before_try"   -> "ra_exc_complete"
      [] region = "run_except"       -> "ra_exc_complete"
      [] region = "run_agent_try"    -> "ra_exc_complete"
      [] region = "run_agent_except" -> "propagated"

\* {"error": str(e), "raw": "Error during execution", "agent": self.name}
TelErrorPayload(agent_key, e) ==
    [error |-> e, raw |-> "Error during execution",
     agent |-> AgentName[agent_key]]

TelemetryInit ==
    /\ NoWriters
    /\ NoRun
    /\ NoCache
    /\ NoPool
    /\ bin = EmptyDict
    /\ bout = EmptyDict
    /\ call = EmptyDict
    /\ mstore = EmptyDict
    /\ slog = EmptyDict
    /\ tel \in { [pc |-> "ra_emit_start", agent_key |-> k, job_id |-> j,
                  current_job_id |-> c, path |-> p, failed |-> {},
                  result |-> EmptyDict, exc |-> "None", update |-> EmptyDict]
                 : k \in TelAgentKeys, j \in {"1", "unknown"}, c \in {0, 1},
                   p \in TelPaths }

TelFrame == UNCHANGED <<bin, bout, call, mstore, slog, cacheVars, poolVars, lockVars, runVars>>

\* one telemetry call at the current position
TelemetryCall(fault) ==
    /\ tel # EmptyDict
    /\ tel.pc \in DOMAIN TelProgram
    /\ LET at == TelProgram[tel.pc]
           r == IF at.kind = "emit"
                THEN emit_event(research_id_of(tel.job_id),
                                tel.current_job_id, fault)
                ELSE guarded_call(fault)
           failed == IF fault = "ok" THEN tel.failed
                     ELSE tel.failed \cup {tel.pc}
       IN /\ at.kind # "emit" => fault # "http_error"
          /\ IF ~r.raised
             THEN tel' = [tel EXCEPT !.pc = TelAfter(tel.pc, tel.result),
                                     !.failed = failed]
             ELSE IF at.region = "run_try"
             THEN tel' = [tel EXCEPT
                            !.pc = TelHandler(at.region),
                            !.failed = failed,
                            !.result = TelErrorPayload(tel.agent_key,
                                                       "telemetry failed")]
             ELSE tel' = [tel EXCEPT !.pc = TelHandler(at.region),
                                     !.failed = failed,
                                     !.exc = "telemetry failed"]
    /\ TelFrame

\* result = agent.run(state): an overriding run that raises, or
\* BaseAgent.run
AgentRun ==
    /\ tel # EmptyDict
    /\ tel.pc = "agent_run"
    /\ IF tel.path = "raise"
       THEN tel' = [tel EXCEPT !.pc = "ra_exc_complete", !.exc = "step raised"]
       ELSE tel' = [tel EXCEPT !.pc = "run_emit_start"]
    /\ TelFrame

\* cached_result = self._get_from_cache(input_hash); if cached_result: ...
TelCacheLookup ==
    /\ tel # EmptyDict
    /\ tel.pc = "run_cache"
    /\ IF tel.path = "hit"
       THEN tel' = [tel EXCEPT
                      !.pc = "run_hit_complete",
                      !.result = AgentOutcome(tel.agent_key, "ok").result]
       ELSE tel' = [tel EXCEPT !.pc = "run_invoke"]
    /\ TelFrame

\* response = self.llm.invoke(messages) and the parsing of its content
TelInvoke ==
    /\ tel # EmptyDict
    /\ tel.pc = "run_invoke"
    /\ IF tel.path = "ok"
       THEN tel' = [tel EXCEPT
                      !.pc = "run_ok_metrics",
                      !.result = AgentOutcome(tel.agent_key, "ok").result]
       ELSE tel' = [tel EXCEPT
                      !.pc = "run_err_track",
                      !.result = AgentOutcome(tel.agent_key, "error").result]
    /\ TelFrame

\* self._save_to_cache(input_hash, result)
TelSave ==
    /\ tel # EmptyDict
    /\ tel.pc = "run_save"
    /\ tel' = [tel EXCEPT !.pc = "run_ok_complete"]
    /\ TelFrame

\* the return of run_agent, from its try block or from its except branch
TelReturn ==
    /\ tel # EmptyDict
    /\ tel.pc \in {"ra_return", "ra_exc_return"}
    /\ tel' = [tel EXCEPT
                 !.pc = "done",
                 !.update =
                    run_agent(tel.agent_key, [_job_id |-> tel.job_id],
                              IF tel.pc = "ra_return"
                              THEN Returned(tel.result)
                              ELSE Raised(tel.exc))]
    /\ TelFrame

TelemetryNext ==
    \/ \E fault \in TelFaults : TelemetryCall(fault)
    \/ AgentRun
    \/ TelCacheLookup
    \/ TelInvoke
    \/ TelSave
    \/ TelReturn

SpecTelemetry == TelemetryInit /\ [][TelemetryNext]_vars

\* what the step returns when no telemetry call fails
TelReference ==
    run_agent(tel.agent_key, [_job_id |-> tel.job_id],
              AgentOutcome(tel.agent_key,
                           IF tel.path = "hit" THEN "ok" ELSE tel.path))

\* C23: no exception of a telemetry call leaves run_agent, and whatever
\* telemetry calls failed the step returns the update it returns when none
\* fails (the measured seconds, which no telemetry-free run repeats either,
\* are not part of the update).
C23_TelemetryNeverChangesOutcome ==
    tel # EmptyDict =>
       /\ tel.pc # "propagated"
       /\ tel.pc = "done" => tel.update = TelReference

C23_Witness ==
    /\ tel # EmptyDict
    /\ tel.pc = "done"
    /\ tel.path = "ok"
    /\ {"ra_emit_start", "run_ok_metrics", "run_ok_track", "run_ok_complete"}
          \subseteq tel.failed
    /\ tel.update = TelReference

\* ------------------------------------------------------------------------
\* The lock table called directly (utils/document_lock.py): any caller may
\* call acquire, release and increment_version with any owner.

\* versions above this are not followed
MaxVersion == 3

\* the owners of the writer nodes, the default owner and the privileged one
ApiOwners == Owners \cup {"unknown", "force"}

LockApiInit ==
    /\ NoWriters
    /\ NoRun
    /\ NoCache
    /\ NoPool
    /\ bin = EmptyDict
    /\ bout = EmptyDict
    /\ call = [op |-> "none"]
    /\ mstore = EmptyDict
    /\ slog = EmptyDict
    /\ tel = EmptyDict

LockApiFrame ==
    UNCHANGED <<wpc, wjob, wowner, wpolls, wresult, granted, reported,
                bin, bout, mstore, slog, tel, cacheVars, poolVars, runVars>>

\* acquire(job_id, owner, timeout) with no other caller at work meanwhile:
\* every poll of the loop sees the table of the first one
ApiAcquire(job_id, owner) ==
    /\ call # EmptyDict
    /\ LET r == acquire_poll(locks, job_id, owner) IN
       /\ locks' = r.locks
       /\ call' = [op |-> "acquire", job_id |-> job_id, owner |-> owner,
                   ret |-> r.ret, before |-> locks]
    /\ LockApiFrame

\* release(job_id, owner)
ApiRelease(job_id, owner) ==
    /\ call # EmptyDict
    /\ LET r == release(locks, job_id, owner) IN
       /\ locks' = r.locks
       /\ call' = [op |-> "release", job_id |-> job_id, owner |-> owner,
                   ret |-> r.ret, before |-> locks]
    /\ LockApiFrame

\* increment_version(job_id)
ApiIncrementVersion(job_id) ==
    /\ call # EmptyDict
    /\ job_id \in DOMAIN locks => locks[job_id].version < MaxVersion
    /\ LET r == increment_version(locks, job_id) IN
       /\ locks' = r.locks
       /\ call' = [op |-> "increment_version", job_id |-> job_id,
                   owner |-> "unknown", ret |-> r.ret /= 0, before |-> locks]
    /\ LockApiFrame

LockApiNext ==
    \/ \E j \in Jobs, o \in ApiOwners : ApiAcquire(j, o)
    \/ \E j \in Jobs, o \in ApiOwners : ApiRelease(j, o)
    \/ \E j \in Jobs : ApiIncrementVersion(j)

SpecLockApi == LockApiInit /\ [][LockApiNext]_vars

Released == call.op = "release" /\ call.job_id \in DOMAIN call.before

\* C24: a release deletes the record only when its owner is the owner of
\* the record or is "force" (and then deletes nothing else); a release by
\* any other owner returns False and leaves the table, and so the record,
\* as it was.
C24_ReleaseOnlyByOwner ==
    Released =>
       LET owns == \/ call.before[call.job_id].owner = call.owner
                   \/ call.owner = "force"
       IN /\ owns => /\ call.ret
                     /\ locks = DictDel(call.before, call.job_id)
          /\ ~owns => /\ ~call.ret
                      /\ locks = call.before

C24_Witness ==
    /\ Released
    /\ call.owner \notin {"force", call.before[call.job_id].owner}
    /\ call.before[call.job_id].version > 1
    /\ ~call.ret
    /\ locks = call.before

\* ------------------------------------------------------------------------
\* Acquire, version and timeout in the writer nodes (SpecLock)

\* execution e takes a step of acquire
AcquireStep(e) ==
    /\ wpc[e] = "acquire"
    /\ wpc'[e] # "acquire" \/ wpolls'[e] # wpolls[e]

HeldByOther(e) ==
    /\ wjob[e] \in DOMAIN locks
    /\ locks[wjob[e]].owner # wowner[e]

\* C25: acquire returns True at a poll that finds no record, and inserts one
\* for the caller, or finds the caller's own record, and leaves the table
\* as it is; at every other poll it leaves the table as it is and either
\* sleeps or, the timeout elapsed, returns False.
C25_AcquirePolls ==
    [][\A e \in Execs :
         AcquireStep(e) =>
            /\ wpc'[e] = "write" <=> ~HeldByOther(e)
            /\ (wpc'[e] = "write" /\ wjob[e] \notin DOMAIN locks) =>
                  locks' = DictSet(locks, wjob[e],
                                   LockInfo(wjob[e], wowner[e], 1))
            /\ (wpc'[e] = "write" /\ wjob[e] \in DOMAIN locks) =>
                  locks' = locks
            /\ HeldByOther(e) =>
                  /\ locks' = locks
                  /\ wpc'[e] = "lock_timeout" <=> wpolls[e] >= TimeoutPolls
                  /\ wpc'[e] = "acquire" <=> wpolls'[e] = wpolls[e] + 1]_vars

C25_Witness ==
    \E e1, e2 \in Execs :
        /\ wjob[e1] = wjob[e2] /\ wowner[e1] # wowner[e2]
        /\ wpc[e1] = "lock_timeout"
        /\ InWrite(e2) /\ locks[wjob[e2]].owner = wowner[e2]

\* C26: the increment_version call of a writer node whose write succeeded
\* raises the version of the resource by exactly one.
C26_WriteIncrementsVersion ==
    [][\A e \in Execs :
         (/\ wpc[e] = "increment" /\ wpc'[e] = "release"
          /\ wresult[e] = "completed")
         => /\ wjob[e] \in DOMAIN locks
            /\ wjob[e] \in DOMAIN locks'
            /\ locks'[wjob[e]].version = locks[wjob[e]].version + 1]_vars

\* the update a writer node returns when acquire returned False
LockFailedUpdate(owner) ==
    [history |-> <<[agent |-> AgentName[owner],
                    entry |-> "FAILED - Could not acquire document lock"]>>]

\* what the writer node of execution e returns
NodeUpdate(e) ==
    IF wresult[e] = "lock_failed"
    THEN LockFailedUpdate(wowner[e])
    ELSE run_agent(wowner[e], [_job_id |-> wjob[e]],
                   AgentOutcome(wowner[e],
                                CASE wresult[e] = "completed" -> "ok"
                                  [] wresult[e] = "error_payload" -> "error"
                                  [] OTHER -> "raise"))

\* C27: a writer node whose acquire timed out has polled up to the timeout
\* and no further, returns the FAILED history entry and no finding, has not
\* run its agent, and does nothing more: no increment, no second acquire.
C27_LockTimeoutSurfaced ==
    /\ [](\A e \in Execs :
            wpc[e] = "lock_timeout" =>
               /\ wpolls[e] = TimeoutPolls
               /\ wresult[e] = "lock_failed"
               /\ NodeUpdate(e) = LockFailedUpdate(wowner[e])
               /\ "findings" \notin DOMAIN NodeUpdate(e))
    /\ [][\A e \in Execs :
            /\ wpc[e] = "lock_timeout" =>
                  /\ wpc'[e] = "lock_timeout"
                  /\ wresult'[e] = wresult[e]
                  /\ wpolls'[e] = wpolls[e]
            /\ (wpc[e] = "acquire" /\ wpc'[e] = "lock_timeout") =>
                  /\ locks' = locks
                  /\ reported' = reported]_vars

C27_Witness ==
    \E e \in Execs :
        /\ wpc[e] = "lock_timeout"
        /\ wowner[e] = "multi_stage_report"
        /\ wjob[e] \in DOMAIN locks
        /\ locks[wjob[e]].owner = "latex_generation"

\* ------------------------------------------------------------------------
\* The state store under both backings (state_store.py).  A store is
\* [available, redis, memory] as before; here every Redis command of a call
\* either works (ok) or raises, and the except branch of the call falls
\* through to _MEMORY_STORE.  The dicts stored have string keys and boolean
\* or string values, which json.loads(json.dumps(state, default=str)) gives
\* back equal; what the round trip does not keep is the identity of the dict.

StoreIds == {1, 2}

\* the dicts callers write
StoreDicts ==
    { EmptyDict, [topic_locked |-> FALSE],
      [topic_locked |-> TRUE, topic_suggestions |-> "s"] }

\* the partial dicts callers merge in
StoreUpdates == { [topic_locked |-> TRUE] }

\* get_state served from Redis: the backing is there, the GET worked and gave
\* a non-empty string
FromRedis(S, session_id, ok) ==
    S.available /\ ok /\ session_id \in DOMAIN S.redis

\* get_state(session_id)
get_state_op(S, session_id, ok) ==
    IF FromRedis(S, session_id, ok)
    THEN S.redis[session_id]
    ELSE Get(S.memory, session_id, EmptyDict)

\* set_state(session_id, state)
set_state_op(S, session_id, state, ok) ==
    IF S.available /\ ok
    THEN [S EXCEPT !.redis = DictSet(@, session_id, state)]
    ELSE [S EXCEPT !.memory = DictSet(@, session_id, state)]

\* update_state(session_id, updates): current.update(updates) changes the
\* dict get_state returned, which is the stored one when it came from
\* _MEMORY_STORE
update_state_op(S, session_id, updates, ok_get, ok_set) ==
    LET current == merge_dicts(get_state_op(S, session_id, ok_get), updates)
        S1 == IF ~FromRedis(S, session_id, ok_get)
                 /\ session_id \in DOMAIN S.memory
              THEN [S EXCEPT !.memory[session_id] = current]
              ELSE S
    IN [ret |-> current, store |-> set_state_op(S1, session_id, current, ok_set)]

\* delete_state(session_id)
delete_state_op(S, session_id, ok) ==
    [S EXCEPT !.redis = IF S.available /\ ok THEN DictDel(@, session_id) ELSE @,
              !.memory = DictDel(@, session_id)]

\* RESEARCH_STATES[key][field] = value
proxy_item_assign_op(S, key, field, value, ok) ==
    IF FromRedis(S, key, ok)
    THEN S
    ELSE IF key \in DOMAIN S.memory
         THEN [S EXCEPT !.memory[key] = DictSet(@, field, value)]
         ELSE S

\* a process that found Redis at startup and one that did not
RedisBacked == [available |-> TRUE, redis |-> EmptyDict, memory |-> EmptyDict]

MemoryBacked == [available |-> FALSE, redis |-> EmptyDict, memory |-> EmptyDict]

StoreTwinInit ==
    /\ NoWriters
    /\ NoCache
    /\ NoPool
    /\ st = EmptyDict
    /\ active = {}
    /\ step = 0
    /\ status = "none"
    /\ writes = EmptyDict
    /\ faults = 0
    /\ store = RedisBacked
    /\ mstore = MemoryBacked
    /\ slog = [op |-> "none", written |-> EmptyDict]
    /\ bin = EmptyDict
    /\ bout = EmptyDict
    /\ call = EmptyDict
    /\ tel = EmptyDict

StoreFrame ==
    UNCHANGED <<st, active, step, status, writes, faults, bin, bout, call, tel,
                cacheVars, poolVars, lockVars>>

StoreGet(session_id, ok) ==
    /\ slog # EmptyDict
    /\ slog' = [op |-> "get", id |-> session_id, ok |-> ok,
                redis |-> get_state_op(store, session_id, ok),
                memory |-> get_state_op(mstore, session_id, TRUE),
                written |-> slog.written]
    /\ UNCHANGED <<store, mstore>>
    /\ StoreFrame

StoreSet(session_id, state, ok) ==
    /\ slog # EmptyDict
    /\ store' = set_state_op(store, session_id, state, ok)
    /\ mstore' = set_state_op(mstore, session_id, state, TRUE)
    /\ slog' = [op |-> "set", id |-> session_id, ok |-> ok,
                redis |-> EmptyDict, memory |-> EmptyDict,
                written |-> DictSet(slog.written, session_id, state)]
    /\ StoreFrame

StoreUpdate(session_id, updates, ok_get, ok_set) ==
    /\ slog # EmptyDict
    /\ LET r == update_state_op(store, session_id, updates, ok_get, ok_set)
           m == update_state_op(mstore, session_id, updates, TRUE, TRUE)
       IN /\ store' = r.store
          /\ mstore' = m.store
          /\ slog' = [op |-> "merge_update", id |-> session_id,
                      ok |-> ok_get /\ ok_set,
                      redis |-> r.ret, memory |-> m.ret,
                      written |-> DictSet(slog.written, session_id, r.ret)]
    /\ StoreFrame

StoreDelete(session_id, ok) ==
    /\ slog # EmptyDict
    /\ store' = delete_state_op(store, session_id, ok)
    /\ mstore' = delete_state_op(mstore, session_id, TRUE)
    /\ slog' = [op |-> "delete", id |-> session_id, ok |-> ok,
                redis |-> EmptyDict, memory |-> EmptyDict,
                written |-> DictDel(slog.written, session_id)]
    /\ StoreFrame

\* RESEARCH_STATES[key]["topic_suggestions"] = ...
ProxyMutate(key) ==
    /\ slog # EmptyDict
    /\ store' = proxy_item_assign_op(store, key, "topic_suggestions", "s", TRUE)
    /\ mstore' = proxy_item_assign_op(mstore, key, "topic_suggestions", "s", TRUE)
    /\ slog' = [op |-> "proxy_item_assign", id |-> key, ok |-> TRUE,
                redis |-> EmptyDict, memory |-> EmptyDict,
                written |-> slog.written]
    /\ StoreFrame

\* every Redis command works
StoreTwinNext ==
    \/ \E i \in StoreIds : StoreGet(i, TRUE)
    \/ \E i \in StoreIds, d \in StoreDicts : StoreSet(i, d, TRUE)
    \/ \E i \in StoreIds, u \in StoreUpdates : StoreUpdate(i, u, TRUE, TRUE)
    \/ \E i \in StoreIds : StoreDelete(i, TRUE)
    \/ \E i \in StoreIds : ProxyMutate(i)

SpecStoreTwin == StoreTwinInit /\ [][StoreTwinNext]_vars

\* C28: whatever was called before, a call returns the same under both
\* backings.
C28_BackingTransparent ==
    (slog # EmptyDict /\ slog.op # "none") => slog.redis = slog.memory

StoreFaultsInit == StoreTwinInit

\* any Redis command of any call may raise
StoreFaultsNext ==
    \/ \E i \in StoreIds, ok \in BOOLEAN : StoreGet(i, ok)
    \/ \E i \in StoreIds, d \in StoreDicts, ok \in BOOLEAN : StoreSet(i, d, ok)
    \/ \E i \in StoreIds, u \in StoreUpdates, ok_get, ok_set \in BOOLEAN :
          StoreUpdate(i, u, ok_get, ok_set)
    \/ \E i \in StoreIds, ok \in BOOLEAN : StoreDelete(i, ok)

SpecStoreFaults == StoreFaultsInit /\ [][StoreFaultsNext]_vars

\* C29: get returns the dict last written for the id by set or
\* merge_update, and the empty dict when nothing was written or the id was
\* deleted since, whichever Redis commands failed.
C29_GetReturnsLatestWrite ==
    (slog # EmptyDict /\ slog.op = "get") =>
       slog.redis = Get(slog.written, slog.id, EmptyDict)

\* ------------------------------------------------------------------------
\* Findings keys of the nodes (graph/full_pipeline.py)

\* the agent key each node of the graph passes to run_agent, the gate nodes
\* and the two legacy nodes included
NodeKeys ==
    AgentKey @@ [topic_discovery |-> "topic_discovery",
                 topic_lock |-> "topic_lock",
                 writing |-> "scientific_writing",
                 latex |-> "latex_generation"]

\* the nodes of the superstep whose update has findings
FindingWriters == {n \in DOMAIN writes : "findings" \in DOMAIN writes[n].update}

HistoryWriters == {n \in DOMAIN writes : "history" \in DOMAIN writes[n].update}

\* the entries history gains in a step
Appended == SubSeq(st'.history, Len(st.history) + 1, Len(st'.history))

\* C31: a step that changes the state leaves the entries history had in
\* place and in order, and appends to its end exactly one entry of each
\* node of the superstep that returned one, under that node's own agent
\* name.
C31_HistoryAppendOnly ==
    [][st' # st =>
         /\ Len(st'.history) = Len(st.history) + Cardinality(HistoryWriters)
         /\ SubSeq(st'.history, 1, Len(st.history)) = st.history
         /\ \A n \in HistoryWriters :
               /\ Len(writes[n].update.history) = 1
               /\ writes[n].update.history[1].agent = AgentName[AgentKey[n]]
               /\ \E i \in 1..Len(Appended) :
                     Appended[i] = writes[n].update.history[1]]_vars

C31_Witness ==
    /\ HistoryCount("historical_review") = 1
    /\ HistoryCount("slr") = 1
    /\ HistoryCount("news") = 1
    /\ HistoryCount("domain_intelligence") = 1
    /\ Len(st.history) = 6

\* ------------------------------------------------------------------------
\* The orchestrator's routing as a function of the state and of what its
\* inference did (agents/orchestrator/orchestrator.py, orchestrator_node,
\* route_strategy)

OrchestratorInit ==
    /\ NoWriters
    /\ NoRun
    /\ NoCache
    /\ NoPool
    /\ bin = EmptyDict
    /\ bout = EmptyDict
    /\ \E task \in Tasks, paper_url \in PaperUrls, job_id \in RunJobIds,
          o \in OrchestratorOutcomes :
           call = [op |-> "orchestrator",
                   state |-> InitialState(task, paper_url, job_id),
                   outcome |-> o, done |-> FALSE]
    /\ mstore = EmptyDict
    /\ slog = EmptyDict
    /\ tel = EmptyDict

\* orchestrator_node(state) and the conditional edge taken on its update
OrchestratorRoute ==
    /\ call # EmptyDict
    /\ ~call.done
    /\ LET update == orchestrator_node(call.state, call.outcome) IN
       call' = [call EXCEPT
                  !.done = TRUE] @@
               [result |-> OrchestratorAgent_run(call.state, call.outcome),
                update |-> update,
                route |-> route_strategy(ApplyUpdate(call.state, update))]
    /\ UNCHANGED <<locks, wpc, wjob, wowner, wpolls, wresult, granted, reported,
                   bin, bout, mstore, slog, tel, cacheVars, poolVars, runVars>>

OrchestratorNext == OrchestratorRoute

SpecOrchestrator == OrchestratorInit /\ [][OrchestratorNext]_vars

\* C32: when the orchestrator's inference fails, the dict
\* OrchestratorAgent.run returns has the next_step of the heuristic
\* (paper_analysis with a paper_url, literature_review without one and with
\* no mention of a paper), and a run with a paper_url goes on to
\* paper_decomposition.
C32_FallbackRouting ==
    (call # EmptyDict /\ call.done /\ call.outcome = "error") =>
       /\ "next_step" \in DOMAIN call.result
       /\ call.result.next_step = Heuristic(call.state)
       /\ call.state.paper_url # "None" => call.route = "paper_decomposition"

\* ------------------------------------------------------------------------
\* Provider selection as a function of the configuration (llm/factory.py):
\* every mode, model names of every routing branch, kinds with and without
\* keys, the Ollama server up or down.

FactoryModes == {"OFFLINE", "ONLINE", "HYBRID"}

FactoryModels ==
    {"phi3:mini", "llama3-70b-8192", "gemma2-9b-it", "openrouter/auto",
     "gemini/gemini-pro", "groq/mixtral-8x7b"}

\* the key lists of a configuration, by their lengths
FactoryConfigs ==
    [GROQ_API_KEYS : 0..1, OPENROUTER_API_KEYS : 0..1, GEMINI_API_KEYS : 0..1]

\* a provider the factory constructed: its class and the number of its keys
ProviderOf(kind, keys) == [raised |-> FALSE, kind |-> kind, keys |-> keys]

\* _create_openrouter_provider and _create_gemini_provider: the class is
\* abstract, the constructor call raises
CreateAbstract(kind) == [raised |-> TRUE, kind |-> kind, keys |-> 0]

\* _resolve_online_provider(cfg, model_name), with the conditions on the
\* model name evaluated: startswith("openrouter/"), startswith("gemini/"),
\* startswith("groq/"), and "gemma" in name or ("llama" in name and
\* GROQ_API_KEYS)
resolve_online(c, model_name) ==
    IF model_name = "openrouter/auto" THEN CreateAbstract("openrouter")
    ELSE IF model_name = "gemini/gemini-pro" THEN CreateAbstract("gemini")
    ELSE IF model_name = "groq/mixtral-8x7b"
    THEN ProviderOf("groq", c.GROQ_API_KEYS)
    ELSE IF \/ model_name = "gemma2-9b-it"
            \/ (model_name = "llama3-70b-8192" /\ c.GROQ_API_KEYS > 0)
    THEN ProviderOf("groq", c.GROQ_API_KEYS)
    ELSE IF c.OPENROUTER_API_KEYS > 0 THEN CreateAbstract("openrouter")
    ELSE IF c.GROQ_API_KEYS > 0 THEN ProviderOf("groq", c.GROQ_API_KEYS)
    ELSE IF c.GEMINI_API_KEYS > 0 THEN CreateAbstract("gemini")
    ELSE [raised |-> FALSE, kind |-> "None", keys |-> 0]

\* provider.is_available(): the server answers, or a key is configured
is_available(p, reachable) ==
    IF p.kind = "ollama" THEN reachable ELSE p.keys > 0

\* get_llm_provider(model_name) on an empty _PROVIDER_CACHE
get_llm_provider(mode, c, model_name, reachable) ==
    IF mode = "OFFLINE"
    THEN IF ~is_available(ProviderOf("ollama", 0), reachable)
            /\ c.GROQ_API_KEYS > 0
         THEN ProviderOf("groq", c.GROQ_API_KEYS)
         ELSE ProviderOf("ollama", 0)
    ELSE IF mode = "ONLINE"
    THEN LET provider == resolve_online(c, model_name) IN
         IF provider.raised THEN provider
         ELSE IF provider.kind = "None" \/ ~is_available(provider, reachable)
         THEN ProviderOf("ollama", 0)
         ELSE provider
    ELSE ProviderOf("ollama", 0)

FactoryInit ==
    /\ NoWriters
    /\ NoRun
    /\ NoCache
    /\ NoPool
    /\ bin = EmptyDict
    /\ bout = EmptyDict
    /\ \E mode \in FactoryModes, c \in FactoryConfigs, m \in FactoryModels,
          reachable \in BOOLEAN :
           call = [op |-> "get_llm_provider", mode |-> mode, config |-> c,
                   model_name |-> m, reachable |-> reachable, done |-> FALSE]
    /\ mstore = EmptyDict
    /\ slog = EmptyDict
    /\ tel = EmptyDict

GetLLMProvider ==
    /\ call # EmptyDict
    /\ ~call.done
    /\ call' = [call EXCEPT !.done = TRUE] @@
               [provider |-> get_llm_provider(call.mode, call.config,
                                              call.model_name, call.reachable)]
    /\ UNCHANGED <<locks, wpc, wjob, wowner, wpolls, wresult, granted, reported,
                   bin, bout, mstore, slog, tel, cacheVars, poolVars, runVars>>

FactoryNext == GetLLMProvider

SpecFactory == FactoryInit /\ [][FactoryNext]_vars

\* C33: get_llm_provider raises in no configuration; in mode OFFLINE with
\* the server down it returns the Groq provider when Groq keys are
\* configured and the Ollama provider anyway when not.
C33_AlwaysReturnsProvider ==
    (call # EmptyDict /\ call.done) =>
       /\ ~call.provider.raised
       /\ (call.mode = "OFFLINE" /\ ~call.reachable) =>
             call.provider.kind =
                IF call.config.GROQ_API_KEYS > 0 THEN "groq" ELSE "ollama"


----------------------------------------------------------------------------
(* Claims on the waiting gate: inference calls of topic discovery *)

\* TopicDiscoveryAgent.run reaches self.llm.invoke(messages): the state is
\* not locked and carries no suggestions (both early returns are skipped)
RunsInference(state) ==
    ~state.topic_locked /\ Len(state.topic_suggestions) = 0

\* an earlier visit of topic_discovery generated suggestions and the topic
\* is not locked
SuggestionsPending ==
    /\ ~st.topic_locked
    /\ "topic_discovery" \in DOMAIN st.findings
    /\ Len(Get(st.findings["topic_discovery"], "topic_suggestions", <<>>)) > 0

\* C34: while suggestions are pending and the topic is not locked, a further
\* visit of topic_discovery does not run inference again.
C34_SingleInference ==
    [][(/\ status = "running" /\ active = {"topic_discovery"}
        /\ step' = step + 1
        /\ SuggestionsPending)
       => ~RunsInference(st)]_vars


\* the session store holds topic_locked=true for a session id
StoreLocked(S, id) == Get(get_state(S, id), "topic_locked", FALSE)

\* C35: a topic_locked=true with its selected_topic written to the session
\* store by the external actor is never overwritten by a later step of the
\* gate: it stays in the store with the same selected_topic.
C35_ExternalLockKept ==
    [][\A id \in SessionIds :
          StoreLocked(store, id) =>
             /\ StoreLocked(store', id)
             /\ Get(get_state(store', id), "selected_topic", "None") \in UserTopics
      ]_vars


----------------------------------------------------------------------------
(* state_store.update_state called concurrently: the gate's thread, the    *)
(* HTTP handler update_research_state and other worker processes share one *)
(* store.  update_state is get_state, dict.update, set_state with no lock  *)
(* around them, so the calls of two callers interleave between the steps.  *)

Callers == {1, 2}

\* the partial states each caller merges in: the keys of caller 1 and of
\* caller 2 are disjoint
CallerUpdates(c) ==
    IF c = 1
    THEN { [topic_locked |-> TRUE],
           [topic_locked |-> TRUE, selected_topic |-> "User title A"] }
    ELSE { [topic_suggestions |-> "s"], [progress |-> "50"] }

\* the store before the calls: either backing, the session known or not
RaceStores ==
    { RedisBacked, MemoryBacked,
      [RedisBacked EXCEPT !.redis = DictSet(@, 1, [task |-> "t"])],
      [MemoryBacked EXCEPT !.memory = DictSet(@, 1, [task |-> "t"])] }

StoreRaceInit ==
    /\ NoWriters
    /\ NoCache
    /\ NoPool
    /\ st = EmptyDict
    /\ active = {}
    /\ step = 0
    /\ status = "none"
    /\ writes = EmptyDict
    /\ faults = 0
    /\ store \in RaceStores
    /\ mstore = EmptyDict
    /\ slog = EmptyDict
    /\ bin = EmptyDict
    /\ bout = EmptyDict
    /\ tel = EmptyDict
    /\ call = [c \in Callers |->
                 [pc |-> "idle", id |-> 0, updates |-> EmptyDict,
                  current |-> EmptyDict, stored |-> FALSE]]

StoreRaceFrame ==
    UNCHANGED <<st, active, step, status, writes, faults, bin, bout, mstore,
                slog, tel, cacheVars, poolVars, lockVars>>

\* current = get_state(session_id).  stored: the dict returned is the one
\* kept in _MEMORY_STORE, not a copy
UpdateGet(c, session_id, updates) ==
    /\ call[c].pc = "idle"
    /\ call' = [call EXCEPT ![c] =
                  [pc |-> "got", id |-> session_id, updates |-> updates,
                   current |-> get_state_op(store, session_id, TRUE),
                   stored |-> /\ ~FromRedis(store, session_id, TRUE)
                              /\ session_id \in DOMAIN store.memory]]
    /\ UNCHANGED store
    /\ StoreRaceFrame

\* current.update(updates); set_state(session_id, current)
UpdateSet(c) ==
    /\ call[c].pc = "got"
    /\ LET base == IF call[c].stored
                   THEN store.memory[call[c].id] ELSE call[c].current
           current == merge_dicts(base, call[c].updates)
       IN /\ store' = set_state_op(
                         IF call[c].stored
                         THEN [store EXCEPT !.memory[call[c].id] = current]
                         ELSE store,
                         call[c].id, current, TRUE)
          /\ call' = [call EXCEPT ![c].pc = "done", ![c].current = current]
    /\ StoreRaceFrame

StoreRaceNext ==
    \/ \E c \in Callers, i \in StoreIds :
          \E u \in CallerUpdates(c) : UpdateGet(c, i, u)
    \/ \E c \in Callers : UpdateSet(c)

SpecStoreRace == StoreRaceInit /\ [][StoreRaceNext]_vars

\* C36: after two update_state calls for the same session id with disjoint
\* keys have both returned, the stored state holds both updates.
C36_NoLostUpdate ==
    (/\ call # EmptyDict
     /\ \A c \in Callers : call[c].pc = "done"
     /\ call[1].id = call[2].id)
    => \A c \in Callers : \A k \in DOMAIN call[c].updates :
          Get(get_state_op(store, call[c].id, TRUE), k, "None")
             = call[c].updates[k]


----------------------------------------------------------------------------
(* Claims on the version counter and on the release of the lock *)

\* C37: when the writer agent failed while the lock was held (run_agent
\* returned the FAILED history or an error payload), the step of the node
\* that follows the write leaves the version of the job unchanged.
C37_VersionOnlyOnSuccess ==
    [][\A e \in Execs :
          (/\ wpc[e] = "increment" /\ wpc'[e] # "increment"
           /\ wresult[e] # "completed")
          => get_version(locks', wjob[e]) = get_version(locks, wjob[e])]_vars


----------------------------------------------------------------------------
(* Claims on failed inference and the response cache *)

\* two calls for one triple in sequence of which the first returned the
\* error payload
FailedThenAgain ==
    {i \in SequentialPairs : "error" \in DOMAIN clog[i + 2].result}

\* C38: no cache file ever holds an error payload, and after a call that
\* returned the error payload the next call for the same triple misses the
\* cache and makes the inference call again.
C38_FailureNotCached ==
    /\ \A h \in DOMAIN cache :
          cache[h].complete => "error" \notin DOMAIN cache[h].data
    /\ \A i \in FailedThenAgain :
          /\ CallEnd(i + 3) = i + 5
          /\ clog[i + 4].ev = "infer"
          /\ ~clog[i + 5].hit

\* C38 witness: a call failed and the next call for the same triple has run
\* the inference again and returned.
C38_Witness ==
    \E i \in FailedThenAgain :
        /\ Len(clog) >= i + 5
        /\ clog[i + 1].ev = "infer"
        /\ clog[i + 4].ev = "infer"
        /\ clog[i + 5].ev = "end"


----------------------------------------------------------------------------
(* Claims on the retry handler under concurrent use of one provider *)

\* C39: in every call of invoke_with_retry on a provider with more than one
\* key, whatever other threads do with the provider, each rate-limit
\* handling evicts the client of the key that served the failed invocation
\* and the invocation after it goes to a different key.
C39_EvictsServingCredential ==
    \A t \in Threads :
        (RetryCall(t) /\ thr[t].provider \in DOMAIN providers /\ Keys(t) > 1)
        => /\ \A i \in 1..Len(thr[t].evicted) :
                 thr[t].evicted[i] = thr[t].used[i]
           /\ \A i \in 1..(Len(thr[t].used) - 1) :
                 thr[t].used[i + 1] # thr[t].used[i]


\* execution e has finished a node in which it had acquired the lock
Ended(e) == wpc[e] = "done"

\* C40: a writer node that acquired the lock leaves its write step only
\* towards its release, on the normal return and on an exception alike, and
\* the release that ends the node leaves no lock record of its owner for
\* its job id.
C40_ReleasedOnEveryExit ==
    [][\A e \in Execs :
          /\ (wpc[e] \in {"write", "increment"} /\ wpc'[e] # wpc[e])
                => wpc'[e] \in {"increment", "release"}
          /\ (~Ended(e) /\ Ended(e)') =>
                /\ wpc[e] = "release"
                /\ ~(/\ wjob[e] \in DOMAIN locks'
                     /\ locks'[wjob[e]].owner = wowner[e])]_vars

\* C40 witness: a writer node ended by an exception from its write step and
\* another ended by a normal return, and no lock record is left.
C40_Witness ==
    \E e1, e2 \in Execs :
        /\ Ended(e1) /\ wresult[e1] = "raised"
        /\ Ended(e2) /\ wresult[e2] = "completed"
        /\ locks = EmptyDict

====
